---- MODULE Spec2Model ----
(***************************************************************************)
(* Model of the RPC add-on launch of crates/node/builder/src/rpc.rs        *)
(* (RpcAddOns::launch_add_ons_with) as a state machine.  The launch is one *)
(* async function; pc is its position, one action per step between two    *)
(* suspension points or calls into caller-supplied code.                   *)
(***************************************************************************)
EXTENDS Integers, Sequences, FiniteSets, TLC

\* ------------------------------------------------------------------------
\* Bounds and program constants
\* ------------------------------------------------------------------------

\* number of distinct RPC method names the model distinguishes
NumMethods == 2

Methods == 1..NumMethods

\* "in dev mode we generate 20 random dev-signer accounts"
DEV_SIGNERS == 20

\* the two servers of RethRpcServerHandles { rpc, auth }
Servers == {"rpc", "auth"}

\* endpoints a listener can be bound to
Endpoints == {"e1", "e2"}

\* number of canonical-chain updates the provider publishes
MaxUpdates == 2

\* number of distinct hooks a caller can register
NumHooks == 2

HookIds == 1..NumHooks

\* number of hook registrations before the launch
MaxRegs == 2

\* number of distinct transactions a caller sends
NumTxs == 2

\* number of send_raw_transaction calls
MaxCalls == 2

\* length of a capability list
MaxCaps == 2

\* number of start_channel calls, each spawning one worker thread
NumWorkers == 2

\* number of threads that call print_records
NumPrinters == 1

\* number of update_total_op_count_and_time calls
MaxSends == 2

VARIABLES
    pc,            \* position of launch_add_ons_with
    result,        \* what the launch returned: "none", "ok" or the error
    trace,         \* history: sequence of <<phase, "start"|"ok"|"err">>
    dev,           \* config.dev.dev
    cache,         \* EthStateCache: "none" or "spawned"
    feed_task,     \* the cache_new_blocks_task: "none", "running", "ended", "faulted"
    stream,        \* the canonical-chain-update stream of the provider
    feed,          \* subscription, buffer and output of the feed task
    eth_ctx,       \* the EthApiCtx handed to build_eth_api
    heap,          \* the objects modules, auth_module, registry and the clones
    fut,           \* launch_rpc / launch_auth: state of each bind future
    joined,        \* outputs stored by try_join
    listeners,     \* listeners bound in the environment
    handles,       \* RethRpcServerHandles { rpc, auth }
    hook_handles,  \* the handles passed to on_rpc_started
    rpc_handle,    \* the RpcHandle returned by the launch
    calls,         \* number of invocations of each builder, hook and bind
    obs,           \* what the hooks observed on entry and left on return
    engine,        \* BasicEngineApiBuilder::build_engine_api: position and outputs
    hooks,         \* RpcHooks { on_rpc_started, extend_rpc_modules }
    hook_log,      \* history: hooks registered and hooks invoked
    entry,         \* "launch_add_ons" or "launch_add_ons_with"
    opapi,         \* OpEthApi::send_raw_transaction: position, input and effects
    caps,          \* a capability list and the Capabilities values built from it
    CHANNEL,       \* the mpsc channel and the mutex around its receiver
    OP_COUNT_MAP,  \* the mutex-wrapped map of opcode counts
    OP_TIME_MAP,   \* the mutex-wrapped map of opcode run times
    threads,       \* workers and print_records callers: position and locals
    prof_log       \* history: messages sent, received and counted

\* the state of one run of launch_add_ons_with
run_vars == <<pc, result, trace, dev, cache, feed_task, stream, feed, eth_ctx, heap, fut,
              joined, listeners, handles, hook_handles, rpc_handle, calls, obs>>

\* the state of the launch
launch_vars == <<run_vars, engine, hooks, hook_log, entry>>

\* the state of the opcode profiler
prof_vars == <<CHANNEL, OP_COUNT_MAP, OP_TIME_MAP, threads, prof_log>>

\* what the launch does not touch
other_vars == <<opapi, caps, prof_vars>>

vars == <<launch_vars, other_vars>>

\* ------------------------------------------------------------------------
\* Values
\* ------------------------------------------------------------------------

NoRegistry == [built |-> FALSE, signers |-> 0]

NoHandles == [rpc |-> "none", auth |-> "none"]

NoView == [modules |-> {}, auth_module |-> {}, registry |-> NoRegistry]

NoFeed == [subscribed |-> FALSE, sub_at |-> 0, buf |-> <<>>, fed |-> <<>>,
           critical |-> FALSE, escalated |-> FALSE, fault_at |-> "none"]

\* BasicEngineApiBuilder before build_engine_api is called
NoEngine == [pc |-> "idle", validator_calls |-> 0, validator |-> FALSE,
             handler |-> FALSE, log |-> <<>>]

\* send_raw_transaction not called
NoOpApi == [pc |-> "idle"]

\* no capability list
NoCaps == [pc |-> "idle"]

NoProfLog == [sent |-> <<>>, received |-> <<>>, counted |-> {}]

\* Mutex::new(HashMap::new()): lock holds the thread that owns the guard, 0
\* if none
NoMap == [lock |-> 0, map |-> <<>>, poisoned |-> FALSE]

NoMsg == [id |-> 0, op |-> 0, run_time |-> 0]

NoRpcHandle == [some |-> FALSE, rpc_server_handles |-> NoHandles, rpc_registry |-> NoRegistry]

Other(srv) == IF srv = "rpc" THEN "auth" ELSE "rpc"

BindPhase(srv) == IF srv = "rpc" THEN "bind_rpc" ELSE "bind_auth"

BindErr(srv) == IF srv = "rpc" THEN "RpcBindErr" ELSE "AuthBindErr"

\* the methods the configured transports / the auth module hold after assembly
AssembledModules == {1}

\* an injection that seeds a single account
with_dev_accounts_one(reg) == [reg EXCEPT !.signers = @ + 1]

\* AddDevSigners::with_dev_accounts on the Eth handler of the registry
with_dev_accounts(reg) == [reg EXCEPT !.signers = @ + DEV_SIGNERS]

\* the &mut references of RpcContext { registry, modules, auth_module }
RpcContextRefs == [modules |-> "modules", auth_module |-> "auth_module", registry |-> "registry"]

\* ext(ctx.modules, ctx.auth_module, ctx.registry)
ExtArgs == [modules |-> RpcContextRefs.modules,
            auth_module |-> RpcContextRefs.auth_module,
            registry |-> RpcContextRefs.registry]

\* what a hook can do through the mutable references it is given
HookOps ==
    {<<"none", 0>>, <<"with_dev_accounts", 0>>}
      \cup { <<"merge_configured", m>> : m \in Methods }
      \cup { <<"remove_method_from_configured", m>> : m \in Methods }
      \cup { <<"merge_auth_methods", m>> : m \in Methods }

ApplyOp(op, h, refs) ==
    CASE op[1] = "merge_configured" ->
            [h EXCEPT ![refs.modules] = @ \cup {op[2]}]
      [] op[1] = "remove_method_from_configured" ->
            [h EXCEPT ![refs.modules] = @ \ {op[2]}]
      [] op[1] = "merge_auth_methods" ->
            [h EXCEPT ![refs.auth_module] = @ \cup {op[2]}]
      [] op[1] = "with_dev_accounts" ->
            [h EXCEPT ![refs.registry] = with_dev_accounts(@)]
      [] OTHER -> h

\* the objects a hook reaches through its references
View(h, refs) ==
    [modules |-> h[refs.modules], auth_module |-> h[refs.auth_module],
     registry |-> h[refs.registry]]

Log(evs) == trace' = trace \o evs

Count(what) == calls' = [calls EXCEPT ![what] = @ + 1]

\* a hook invocation, and whether it added dev signers to the Eth handler;
\* a registered hook is the one the field of RpcHooks holds
CountHook(what, op) ==
    /\ calls' = [calls EXCEPT ![what] = @ + 1,
                              !["hook_dev_accounts"] =
                                  @ + (IF op[1] = "with_dev_accounts" THEN 1 ELSE 0)]
    /\ hook_log' = IF what \in DOMAIN hooks
                     THEN [hook_log EXCEPT !.invoked = Append(@, <<what, hooks[what]>>)]
                     ELSE hook_log

\* an early return that replaces the error of the phase by a generic one
Abort_wrapped(err) ==
    /\ pc' = "returned"
    /\ result' = "LaunchErr"

\* `?`: the error is returned to the caller of the launch
Abort(err) ==
    /\ pc' = "returned"
    /\ result' = err

\* ------------------------------------------------------------------------
\* Initial state: an RpcAddOns with its builders and hooks, not yet launched
\* ------------------------------------------------------------------------

LaunchInit ==
    /\ pc = "init"
    /\ result = "none"
    /\ trace = <<>>
    /\ dev \in BOOLEAN
    /\ cache = "none"
    /\ feed_task = "none"
    /\ stream = [published |-> 0, state |-> "open"]
    /\ feed = NoFeed
    /\ eth_ctx = [built |-> FALSE, cache |-> "none"]
    /\ heap = [modules |-> {}, auth_module |-> {}, registry |-> NoRegistry,
               cloned_modules |-> {}, auth_clone |-> {}]
    /\ fut = [s \in Servers |-> "none"]
    /\ joined = NoHandles
    /\ listeners = {}
    /\ handles = NoHandles
    /\ hook_handles = NoHandles
    /\ rpc_handle = NoRpcHandle
    /\ calls = [w \in {"build_engine_api", "build_eth_api", "ext", "extend_rpc_modules",
                       "on_rpc_started", "bind_rpc", "bind_auth",
                       "hook_dev_accounts"} |-> 0]
    /\ obs = [k \in {"ext_seen", "ext_left", "extend_seen", "extend_left",
                      "started_seen", "started_left"} |-> NoView]
    /\ engine = NoEngine
    /\ hook_log = [registered |-> <<>>, invoked |-> <<>>]

\* the other components of the node, not in use
OpIdle == opapi = NoOpApi

CapIdle == caps = NoCaps

ProfIdle ==
    /\ CHANNEL = [queue |-> <<>>, receiver |-> 0]
    /\ OP_COUNT_MAP = NoMap
    /\ OP_TIME_MAP = NoMap
    /\ threads = <<>>
    /\ prof_log = NoProfLog

\* launch_add_ons_with on an RpcAddOns whose two hooks the caller has set
Init ==
    /\ LaunchInit
    /\ hooks = [on_rpc_started |-> 1, extend_rpc_modules |-> 1]
    /\ entry = "launch_add_ons_with"
    /\ OpIdle
    /\ CapIdle
    /\ ProfIdle

\* ------------------------------------------------------------------------
\* Phase 1: Engine API
\* ------------------------------------------------------------------------

\* engine_api_builder.build_engine_api(&ctx) is called and awaited
BuildEngineApi ==
    /\ pc = "init"
    /\ pc' = "await_engine_api"
    /\ Count("build_engine_api")
    /\ Log(<< <<"engine_api", "start">> >>)
    /\ UNCHANGED <<result, dev, cache, feed_task, stream, feed, eth_ctx, heap, fut, joined,
                   listeners, handles, hook_handles, rpc_handle, obs>>
    /\ UNCHANGED <<engine, hooks, hook_log, entry, other_vars>>

\* a launch that goes on although the Engine API builder failed
EngineApiDone_noq(ok) ==
    /\ pc = "await_engine_api"
    /\ pc' = "spawn_cache"
    /\ Log(<< <<"engine_api", IF ok THEN "ok" ELSE "err">> >>)
    /\ UNCHANGED <<result, dev, cache, feed_task, stream, feed, eth_ctx, heap, fut, joined,
                   listeners, handles, hook_handles, rpc_handle, calls, obs>>
    /\ UNCHANGED <<engine, hooks, hook_log, entry, other_vars>>

\* a launch that builds the Eth API without creating the cache first
EngineApiDone_nocache(ok) ==
    /\ pc = "await_engine_api"
    /\ IF ok
         THEN /\ pc' = "build_eth_api"
              /\ Log(<< <<"engine_api", "ok">> >>)
              /\ UNCHANGED result
         ELSE /\ Abort("EngineApiErr")
              /\ Log(<< <<"engine_api", "err">>, <<"return", "err">> >>)
    /\ UNCHANGED <<dev, cache, feed_task, stream, feed, eth_ctx, heap, fut, joined,
                   listeners, handles, hook_handles, rpc_handle, calls, obs>>
    /\ UNCHANGED <<engine, hooks, hook_log, entry, other_vars>>

\* a launch that gives up waiting for the Engine API builder
EngineApiDone_timeout(ok) ==
    /\ pc = "await_engine_api"
    /\ Abort("EngineApiErr")
    /\ Log(<< <<"return", "err">> >>)
    /\ UNCHANGED <<dev, cache, feed_task, stream, feed, eth_ctx, heap, fut, joined,
                   listeners, handles, hook_handles, rpc_handle, calls, obs>>
    /\ UNCHANGED <<engine, hooks, hook_log, entry, other_vars>>

\* the builder's future resolves: `.await?`
EngineApiDone(ok) ==
    /\ pc = "await_engine_api"
    /\ IF ok
         THEN /\ pc' = "spawn_cache"
              /\ Log(<< <<"engine_api", "ok">> >>)
              /\ UNCHANGED result
         ELSE /\ Abort("EngineApiErr")
              /\ Log(<< <<"engine_api", "err">>, <<"return", "err">> >>)
    /\ UNCHANGED <<dev, cache, feed_task, stream, feed, eth_ctx, heap, fut, joined,
                   listeners, handles, hook_handles, rpc_handle, calls, obs>>
    /\ UNCHANGED <<engine, hooks, hook_log, entry, other_vars>>

\* ------------------------------------------------------------------------
\* Phase 2: cache and feed task
\* ------------------------------------------------------------------------

\* EthStateCache::spawn_with(..)
SpawnCache ==
    /\ pc = "spawn_cache"
    /\ pc' = "spawn_feed"
    /\ cache' = "spawned"
    /\ Log(<< <<"cache", "ok">> >>)
    /\ UNCHANGED <<result, dev, feed_task, stream, feed, eth_ctx, heap, fut, joined,
                   listeners, handles, hook_handles, rpc_handle, calls, obs>>
    /\ UNCHANGED <<engine, hooks, hook_log, entry, other_vars>>

\* a feed future that is built but never handed to the task executor
SpawnFeedTask_dropped ==
    /\ pc = "spawn_feed"
    /\ pc' = "build_eth_api"
    /\ feed' = [feed EXCEPT !.subscribed = TRUE, !.sub_at = stream.published]
    /\ Log(<< <<"feed_spawn", "ok">> >>)
    /\ UNCHANGED <<result, dev, cache, feed_task, stream, eth_ctx, heap, fut, joined,
                   listeners, handles, hook_handles, rpc_handle, calls, obs>>
    /\ UNCHANGED <<engine, hooks, hook_log, entry, other_vars>>

\* a feed task spawned as an ordinary task instead of a critical one
SpawnFeedTask_plain ==
    /\ pc = "spawn_feed"
    /\ pc' = "build_eth_api"
    /\ feed_task' = "running"
    /\ feed' = [feed EXCEPT !.subscribed = TRUE, !.sub_at = stream.published,
                            !.critical = FALSE]
    /\ Log(<< <<"feed_spawn", "ok">> >>)
    /\ UNCHANGED <<result, dev, cache, stream, eth_ctx, heap, fut, joined,
                   listeners, handles, hook_handles, rpc_handle, calls, obs>>
    /\ UNCHANGED <<engine, hooks, hook_log, entry, other_vars>>

\* canonical_state_stream() and spawn_critical("cache canonical blocks task", ..)
SpawnFeedTask ==
    /\ pc = "spawn_feed"
    /\ pc' = "build_eth_api"
    /\ feed_task' = "running"
    /\ feed' = [feed EXCEPT !.subscribed = TRUE, !.sub_at = stream.published,
                            !.critical = TRUE]
    /\ Log(<< <<"feed_spawn", "ok">> >>)
    /\ UNCHANGED <<result, dev, cache, stream, eth_ctx, heap, fut, joined,
                   listeners, handles, hook_handles, rpc_handle, calls, obs>>
    /\ UNCHANGED <<engine, hooks, hook_log, entry, other_vars>>

\* the provider publishes the next canonical-chain update; a subscribed
\* stream receives it
Publish ==
    /\ stream.state = "open"
    /\ stream.published < MaxUpdates
    /\ stream' = [stream EXCEPT !.published = @ + 1]
    /\ feed' = IF feed.subscribed
                 THEN [feed EXCEPT !.buf = Append(@, stream.published + 1)]
                 ELSE feed
    /\ UNCHANGED <<pc, result, trace, dev, cache, feed_task, eth_ctx, heap, fut, joined,
                   listeners, handles, hook_handles, rpc_handle, calls, obs>>
    /\ UNCHANGED <<engine, hooks, hook_log, entry, other_vars>>

\* the stream ends: gracefully ("closed") or with an error ("error")
StreamEnd(how) ==
    /\ stream.state = "open"
    /\ how \in {"closed", "error"}
    /\ stream' = [stream EXCEPT !.state = how]
    /\ UNCHANGED <<pc, result, trace, dev, cache, feed_task, feed, eth_ctx, heap, fut,
                   joined, listeners, handles, hook_handles, rpc_handle, calls, obs>>
    /\ UNCHANGED <<engine, hooks, hook_log, entry, other_vars>>

\* cache_new_blocks_task takes the next update of the stream and feeds it
\* into the cache
FeedOne ==
    /\ feed_task = "running"
    /\ stream.state # "error"
    /\ feed.buf # <<>>
    /\ feed' = [feed EXCEPT !.buf = Tail(@), !.fed = Append(@, Head(feed.buf))]
    /\ UNCHANGED <<pc, result, trace, dev, cache, feed_task, stream, eth_ctx, heap, fut,
                   joined, listeners, handles, hook_handles, rpc_handle, calls, obs>>
    /\ UNCHANGED <<engine, hooks, hook_log, entry, other_vars>>

\* the chain-update stream is closed and drained: cache_new_blocks_task returns
FeedTaskEnd ==
    /\ feed_task = "running"
    /\ stream.state = "closed"
    /\ feed.buf = <<>>
    /\ feed_task' = "ended"
    /\ UNCHANGED <<pc, result, trace, dev, cache, stream, feed, eth_ctx, heap, fut, joined,
                   listeners, handles, hook_handles, rpc_handle, calls, obs>>
    /\ UNCHANGED <<engine, hooks, hook_log, entry, other_vars>>

\* the stream ended with an error: the task dies, and the task executor
\* escalates the death of a critical task
FeedTaskFault ==
    /\ feed_task = "running"
    /\ stream.state = "error"
    /\ feed_task' = "faulted"
    /\ feed' = [feed EXCEPT !.escalated = feed.critical, !.fault_at = pc]
    /\ UNCHANGED <<pc, result, trace, dev, cache, stream, eth_ctx, heap, fut, joined,
                   listeners, handles, hook_handles, rpc_handle, calls, obs>>
    /\ UNCHANGED <<engine, hooks, hook_log, entry, other_vars>>

\* ------------------------------------------------------------------------
\* Phase 3: Eth API
\* ------------------------------------------------------------------------

\* EthApiCtx { components, config, cache } and build_eth_api(ctx)
BuildEthApi ==
    /\ pc = "build_eth_api"
    /\ pc' = "await_eth_api"
    /\ eth_ctx' = [built |-> TRUE, cache |-> cache]
    /\ Count("build_eth_api")
    /\ Log(<< <<"eth_api", "start">> >>)
    /\ UNCHANGED <<result, dev, cache, feed_task, stream, feed, heap, fut, joined,
                   listeners, handles, hook_handles, rpc_handle, obs>>
    /\ UNCHANGED <<engine, hooks, hook_log, entry, other_vars>>

\* a launch that calls the Eth API builder again when it failed
EthApiDone_retry(ok) ==
    /\ pc = "await_eth_api"
    /\ pc' = IF ok THEN "auth_server_config" ELSE "build_eth_api"
    /\ Log(<< <<"eth_api", IF ok THEN "ok" ELSE "err">> >>)
    /\ UNCHANGED <<result, dev, cache, feed_task, stream, feed, eth_ctx, heap, fut, joined,
                   listeners, handles, hook_handles, rpc_handle, calls, obs>>
    /\ UNCHANGED <<engine, hooks, hook_log, entry, other_vars>>

EthApiDone(ok) ==
    /\ pc = "await_eth_api"
    /\ IF ok
         THEN /\ pc' = "auth_server_config"
              /\ Log(<< <<"eth_api", "ok">> >>)
              /\ UNCHANGED result
         ELSE /\ Abort("EthApiErr")
              /\ Log(<< <<"eth_api", "err">>, <<"return", "err">> >>)
    /\ UNCHANGED <<dev, cache, feed_task, stream, feed, eth_ctx, heap, fut, joined,
                   listeners, handles, hook_handles, rpc_handle, calls, obs>>
    /\ UNCHANGED <<engine, hooks, hook_log, entry, other_vars>>

\* ------------------------------------------------------------------------
\* Phase 4: assembly and dev accounts
\* ------------------------------------------------------------------------

\* config.rpc.auth_server_config(jwt_secret)?
AuthServerConfig(ok) ==
    /\ pc = "auth_server_config"
    /\ IF ok
         THEN /\ pc' = "build_with_auth_server"
              /\ Log(<< <<"assemble", "start">> >>)
              /\ UNCHANGED result
         ELSE /\ Abort("AuthConfigErr")
              /\ Log(<< <<"assemble", "start">>, <<"assemble", "err">>, <<"return", "err">> >>)
    /\ UNCHANGED <<dev, cache, feed_task, stream, feed, eth_ctx, heap, fut, joined,
                   listeners, handles, hook_handles, rpc_handle, calls, obs>>
    /\ UNCHANGED <<engine, hooks, hook_log, entry, other_vars>>

\* RpcModuleBuilder::default()...build_with_auth_server(module_config, engine_api, eth_api)
BuildWithAuthServer ==
    /\ pc = "build_with_auth_server"
    /\ pc' = "dev_accounts"
    /\ heap' = [heap EXCEPT !.modules = AssembledModules,
                            !.auth_module = AssembledModules,
                            !.registry = [built |-> TRUE, signers |-> 0]]
    /\ Log(<< <<"assemble", "ok">> >>)
    /\ UNCHANGED <<result, dev, cache, feed_task, stream, feed, eth_ctx, fut, joined,
                   listeners, handles, hook_handles, rpc_handle, calls, obs>>
    /\ UNCHANGED <<engine, hooks, hook_log, entry, other_vars>>

\* an injection that does not look at the dev flag
DevAccounts_always ==
    /\ pc = "dev_accounts"
    /\ pc' = "ext"
    /\ heap' = [heap EXCEPT !.registry = with_dev_accounts(@)]
    /\ Log(<< <<"dev_accounts", "ok">> >>)
    /\ UNCHANGED <<result, dev, cache, feed_task, stream, feed, eth_ctx, fut, joined,
                   listeners, handles, hook_handles, rpc_handle, calls, obs>>
    /\ UNCHANGED <<engine, hooks, hook_log, entry, other_vars>>

\* if config.dev.dev { registry.eth_api().with_dev_accounts(); }
DevAccounts ==
    /\ pc = "dev_accounts"
    /\ pc' = "ext"
    /\ IF dev
         THEN /\ heap' = [heap EXCEPT !.registry = with_dev_accounts(@)]
              /\ Log(<< <<"dev_accounts", "ok">> >>)
         ELSE UNCHANGED <<heap, trace>>
    /\ UNCHANGED <<result, dev, cache, feed_task, stream, feed, eth_ctx, fut, joined,
                   listeners, handles, hook_handles, rpc_handle, calls, obs>>
    /\ UNCHANGED <<engine, hooks, hook_log, entry, other_vars>>

\* ------------------------------------------------------------------------
\* Phase 5: caller override and registered pre-launch hook
\* ------------------------------------------------------------------------

\* a launch that goes on to the registered hook although the override failed
Ext_noq(op, ok) ==
    /\ pc = "ext"
    /\ op \in HookOps
    /\ CountHook("ext", op)
    /\ heap' = ApplyOp(op, heap, ExtArgs)
    /\ obs' = [obs EXCEPT !.ext_seen = View(heap, ExtArgs),
                          !.ext_left = View(heap', ExtArgs)]
    /\ pc' = "extend_rpc_modules"
    /\ Log(<< <<"ext", "start">>, <<"ext", IF ok THEN "ok" ELSE "err">> >>)
    /\ UNCHANGED <<result, dev, cache, feed_task, stream, feed, eth_ctx, fut, joined,
                   listeners, handles, hook_handles, rpc_handle>>
    /\ UNCHANGED <<engine, hooks, entry, other_vars>>

\* ext(ctx.modules, ctx.auth_module, ctx.registry)?
Ext(op, ok) ==
    /\ pc = "ext"
    /\ op \in HookOps
    /\ CountHook("ext", op)
    /\ heap' = ApplyOp(op, heap, ExtArgs)
    /\ obs' = [obs EXCEPT !.ext_seen = View(heap, ExtArgs),
                          !.ext_left = View(heap', ExtArgs)]
    /\ IF ok
         THEN /\ pc' = "extend_rpc_modules"
              /\ Log(<< <<"ext", "start">>, <<"ext", "ok">> >>)
              /\ UNCHANGED result
         ELSE /\ Abort("ExtErr")
              /\ Log(<< <<"ext", "start">>, <<"ext", "err">>, <<"return", "err">> >>)
    /\ UNCHANGED <<dev, cache, feed_task, stream, feed, eth_ctx, fut, joined,
                   listeners, handles, hook_handles, rpc_handle>>
    /\ UNCHANGED <<engine, hooks, entry, other_vars>>

\* a launch that goes on to start the servers although the hook failed
ExtendRpcModules_noq(op, ok) ==
    /\ pc = "extend_rpc_modules"
    /\ op \in HookOps
    /\ CountHook("extend_rpc_modules", op)
    /\ heap' = ApplyOp(op, heap, RpcContextRefs)
    /\ obs' = [obs EXCEPT !.extend_seen = View(heap, RpcContextRefs),
                          !.extend_left = View(heap', RpcContextRefs)]
    /\ pc' = "start_servers"
    /\ Log(<< <<"extend_rpc_modules", "start">>,
              <<"extend_rpc_modules", IF ok THEN "ok" ELSE "err">> >>)
    /\ UNCHANGED <<result, dev, cache, feed_task, stream, feed, eth_ctx, fut, joined,
                   listeners, handles, hook_handles, rpc_handle>>
    /\ UNCHANGED <<engine, hooks, entry, other_vars>>

\* extend_rpc_modules.extend_rpc_modules(ctx)?
ExtendRpcModules(op, ok) ==
    /\ pc = "extend_rpc_modules"
    /\ op \in HookOps
    /\ CountHook("extend_rpc_modules", op)
    /\ heap' = ApplyOp(op, heap, RpcContextRefs)
    /\ obs' = [obs EXCEPT !.extend_seen = View(heap, RpcContextRefs),
                          !.extend_left = View(heap', RpcContextRefs)]
    /\ IF ok
         THEN /\ pc' = "start_servers"
              /\ Log(<< <<"extend_rpc_modules", "start">>, <<"extend_rpc_modules", "ok">> >>)
              /\ UNCHANGED result
         ELSE /\ Abort("ExtendRpcModulesErr")
              /\ Log(<< <<"extend_rpc_modules", "start">>, <<"extend_rpc_modules", "err">>,
                        <<"return", "err">> >>)
    /\ UNCHANGED <<dev, cache, feed_task, stream, feed, eth_ctx, fut, joined,
                   listeners, handles, hook_handles, rpc_handle>>
    /\ UNCHANGED <<engine, hooks, entry, other_vars>>

\* ------------------------------------------------------------------------
\* Phase 6: the two servers
\* ------------------------------------------------------------------------

\* a transport server started from the live modules instead of the clone
RpcServerModules_live == "modules"

\* server_config.start(&cloned_modules)
RpcServerModules == "cloned_modules"

\* auth_module.clone().start_server(auth_config)
AuthServerModules == "auth_clone"

SourceOf(srv) == IF srv = "rpc" THEN RpcServerModules ELSE AuthServerModules

\* servers started from snapshots taken before the registered hook ran
StartServers_stale ==
    /\ pc = "start_servers"
    /\ pc' = "try_join"
    /\ heap' = [heap EXCEPT !.cloned_modules = obs["extend_seen"].modules,
                            !.auth_clone = obs["extend_seen"].auth_module]
    /\ fut' = [s \in Servers |-> "created"]
    /\ UNCHANGED <<result, trace, dev, cache, feed_task, stream, feed, eth_ctx, joined,
                   listeners, handles, hook_handles, rpc_handle, calls, obs>>
    /\ UNCHANGED <<engine, hooks, hook_log, entry, other_vars>>

\* cloned_modules = modules.clone(); the two bind futures are created, not yet polled
StartServers ==
    /\ pc = "start_servers"
    /\ pc' = "try_join"
    /\ heap' = [heap EXCEPT !.cloned_modules = heap.modules,
                            !.auth_clone = heap.auth_module]
    /\ fut' = [s \in Servers |-> "created"]
    /\ UNCHANGED <<result, trace, dev, cache, feed_task, stream, feed, eth_ctx, joined,
                   listeners, handles, hook_handles, rpc_handle, calls, obs>>
    /\ UNCHANGED <<engine, hooks, hook_log, entry, other_vars>>

\* a successful bind: a listener on endpoint ep serving the module object the
\* server was started from
BindListener(srv, ep) == [srv |-> srv, ep |-> ep, src |-> SourceOf(srv)]

\* dropping the handle of a bound server leaves its listener bound
DropServerHandle(ls, srv) == ls

\* what a bound server serves
Served(l) == heap[l.src]

\* bind futures that run as detached tasks, whatever the launch does
Polled_detached(srv) == fut[srv] \in {"created", "pending"}

\* a bind future is owned by the try_join of the launch: it is polled only
\* while the launch awaits the try_join, and is dropped with it when the
\* launch returns
Polled(srv) ==
    /\ pc = "try_join"
    /\ fut[srv] \in {"created", "pending"}

\* a join that completes as soon as one of the two futures is ready
TryJoinReady_any(f) == f["rpc"] = "ok" \/ f["auth"] = "ok"

\* try_join yields (rpc, auth) when both futures are ready with Ok
TryJoinReady(f) == f["rpc"] = "ok" /\ f["auth"] = "ok"

\* a join that keeps waiting for the other future after an error
TryJoinErr_wait(srv) ==
    /\ UNCHANGED <<pc, result, listeners>>

\* an abort that stops the server which is already bound
TryJoinErr_teardown(srv) ==
    /\ Abort(BindErr(srv))
    /\ listeners' = {}

\* try_join resolves to the first Err: `.await?` returns it; the output of
\* the other future, if it is ready, is dropped with the join
TryJoinErr(srv) ==
    /\ Abort(BindErr(srv))
    /\ listeners' = DropServerHandle(listeners, Other(srv))

\* try_join polls launch_rpc, then launch_auth
Poll(srv, out, ep) ==
    /\ Polled(srv)
    /\ srv = "auth" => fut["rpc"] # "created"
    /\ (srv = "rpc" /\ fut["rpc"] = "pending") => fut["auth"] # "created"
    /\ out \in {"pending", "ok", "err"}
    /\ fut[srv] = "pending" => out # "pending"
    /\ ep \in Endpoints
    /\ out = "ok" => ep \notin {l.ep : l \in listeners}
    /\ calls' = IF fut[srv] = "created"
                  THEN [calls EXCEPT ![BindPhase(srv)] = @ + 1] ELSE calls
    /\ fut' = [fut EXCEPT ![srv] = out]
    /\ LET started == IF fut[srv] = "created"
                        THEN << <<BindPhase(srv), "start">> >> ELSE <<>>
       IN CASE out = "pending" ->
                 /\ Log(started)
                 /\ UNCHANGED <<pc, result, listeners, joined>>
            [] out = "ok" ->
                 /\ listeners' = listeners \cup {BindListener(srv, ep)}
                 /\ joined' = [joined EXCEPT ![srv] = ep]
                 /\ pc' = IF TryJoinReady(fut') THEN "handles" ELSE pc
                 /\ Log(started \o << <<BindPhase(srv), "ok">> >>)
                 /\ UNCHANGED result
            [] out = "err" ->
                 /\ TryJoinErr(srv)
                 /\ Log(started \o << <<BindPhase(srv), "err">> >>
                          \o (IF pc' = "returned" THEN << <<"return", "err">> >> ELSE <<>>))
                 /\ UNCHANGED joined
    /\ UNCHANGED <<dev, cache, feed_task, stream, feed, eth_ctx, heap, handles, hook_handles,
                   rpc_handle, obs>>
    /\ UNCHANGED <<engine, hooks, hook_log, entry, other_vars>>

\* let handles = RethRpcServerHandles { rpc, auth };
AssembleHandles ==
    /\ pc = "handles"
    /\ pc' = "on_rpc_started"
    /\ handles' = joined
    /\ Log(<< <<"handles", "ok">> >>)
    /\ UNCHANGED <<result, dev, cache, feed_task, stream, feed, eth_ctx, heap, fut, joined,
                   listeners, hook_handles, rpc_handle, calls, obs>>
    /\ UNCHANGED <<engine, hooks, hook_log, entry, other_vars>>

\* ------------------------------------------------------------------------
\* Phase 7: post-launch hook and return
\* ------------------------------------------------------------------------

\* a launch that returns the handle although the post-launch hook failed
OnRpcStarted_noq(op, ok) ==
    /\ pc = "on_rpc_started"
    /\ op \in HookOps
    /\ CountHook("on_rpc_started", op)
    /\ hook_handles' = handles
    /\ heap' = ApplyOp(op, heap, RpcContextRefs)
    /\ obs' = [obs EXCEPT !.started_seen = View(heap, RpcContextRefs),
                          !.started_left = View(heap', RpcContextRefs)]
    /\ pc' = "return_handle"
    /\ Log(<< <<"on_rpc_started", "start">>, <<"on_rpc_started", IF ok THEN "ok" ELSE "err">> >>)
    /\ UNCHANGED <<result, listeners, dev, cache, feed_task, stream, feed, eth_ctx, fut, joined,
                   handles, rpc_handle>>
    /\ UNCHANGED <<engine, hooks, entry, other_vars>>

\* on_rpc_started.on_rpc_started(ctx, handles.clone())?
OnRpcStarted(op, ok) ==
    /\ pc = "on_rpc_started"
    /\ op \in HookOps
    /\ CountHook("on_rpc_started", op)
    /\ hook_handles' = handles
    /\ heap' = ApplyOp(op, heap, RpcContextRefs)
    /\ obs' = [obs EXCEPT !.started_seen = View(heap, RpcContextRefs),
                          !.started_left = View(heap', RpcContextRefs)]
    /\ IF ok
         THEN /\ pc' = "return_handle"
              /\ Log(<< <<"on_rpc_started", "start">>, <<"on_rpc_started", "ok">> >>)
              /\ UNCHANGED <<result, listeners>>
         ELSE /\ Abort("OnRpcStartedErr")
              /\ listeners' = DropServerHandle(DropServerHandle(listeners, "rpc"), "auth")
              /\ Log(<< <<"on_rpc_started", "start">>, <<"on_rpc_started", "err">>,
                        <<"return", "err">> >>)
    /\ UNCHANGED <<dev, cache, feed_task, stream, feed, eth_ctx, fut, joined,
                   handles, rpc_handle>>
    /\ UNCHANGED <<engine, hooks, entry, other_vars>>

\* a handle that carries a copy of the registry taken before the hooks ran
ReturnHandle_stale ==
    /\ pc = "return_handle"
    /\ pc' = "returned"
    /\ result' = "ok"
    /\ rpc_handle' = [some |-> TRUE, rpc_server_handles |-> handles,
                      rpc_registry |-> obs["ext_seen"].registry]
    /\ Log(<< <<"return", "ok">> >>)
    /\ UNCHANGED <<dev, cache, feed_task, stream, feed, eth_ctx, heap, fut, joined,
                   listeners, handles, hook_handles, calls, obs>>
    /\ UNCHANGED <<engine, hooks, hook_log, entry, other_vars>>

\* Ok(RpcHandle { rpc_server_handles: handles, rpc_registry: registry, .. })
ReturnHandle ==
    /\ pc = "return_handle"
    /\ pc' = "returned"
    /\ result' = "ok"
    /\ rpc_handle' = [some |-> TRUE, rpc_server_handles |-> handles,
                      rpc_registry |-> heap.registry]
    /\ Log(<< <<"return", "ok">> >>)
    /\ UNCHANGED <<dev, cache, feed_task, stream, feed, eth_ctx, heap, fut, joined,
                   listeners, handles, hook_handles, calls, obs>>
    /\ UNCHANGED <<engine, hooks, hook_log, entry, other_vars>>

\* ------------------------------------------------------------------------
\* The hook registry
\* ------------------------------------------------------------------------

\* RpcHooks::default(): both fields hold the `()` hook, written 0
RpcHooks_default == [on_rpc_started |-> 0, extend_rpc_modules |-> 0]

\* a `()` hook that fails
UnitHook_failing == << <<"none", 0>>, FALSE >>

\* impl OnRpcStarted for () / impl ExtendRpcModules for () and the
\* `|_, _, _| Ok(())` of launch_add_ons: no action, Ok(())
UnitHook == << <<"none", 0>>, TRUE >>

\* what the closures of a caller do in this specification
CallerOps == {<<"none", 0>>, <<"merge_configured", NumMethods>>}

\* the behaviours of the hook a field of RpcHooks holds
HookBehaviours(h) == IF h = 0 THEN {UnitHook} ELSE CallerOps \X BOOLEAN

\* launch_add_ons passes `|_, _, _| Ok(())` as ext, launch_add_ons_with the
\* closure of its caller
ExtBehaviours == IF entry = "launch_add_ons" THEN {UnitHook} ELSE CallerOps \X BOOLEAN

\* a setter that keeps a hook registered earlier
set_on_rpc_started_first(h) ==
    /\ pc = "init"
    /\ Len(hook_log.registered) < MaxRegs
    /\ hooks' = IF hooks.on_rpc_started = 0
                  THEN [hooks EXCEPT !.on_rpc_started = h] ELSE hooks
    /\ hook_log' = [hook_log EXCEPT !.registered = Append(@, <<"on_rpc_started", h>>)]
    /\ UNCHANGED <<run_vars, engine, entry, other_vars>>

\* RpcAddOns::on_rpc_started(hook): self.hooks.set_on_rpc_started(hook),
\* self.on_rpc_started = Box::new(hook)
set_on_rpc_started(h) ==
    /\ pc = "init"
    /\ Len(hook_log.registered) < MaxRegs
    /\ hooks' = [hooks EXCEPT !.on_rpc_started = h]
    /\ hook_log' = [hook_log EXCEPT !.registered = Append(@, <<"on_rpc_started", h>>)]
    /\ UNCHANGED <<run_vars, engine, entry, other_vars>>

\* RpcAddOns::extend_rpc_modules(hook): self.hooks.set_extend_rpc_modules(hook),
\* self.extend_rpc_modules = Box::new(hook)
set_extend_rpc_modules(h) ==
    /\ pc = "init"
    /\ Len(hook_log.registered) < MaxRegs
    /\ hooks' = [hooks EXCEPT !.extend_rpc_modules = h]
    /\ hook_log' = [hook_log EXCEPT !.registered = Append(@, <<"extend_rpc_modules", h>>)]
    /\ UNCHANGED <<run_vars, engine, entry, other_vars>>

\* the launch calls the ext it was given
CallExt(op, ok) ==
    /\ <<op, ok>> \in ExtBehaviours
    /\ Ext(op, ok)

\* let RpcHooks { on_rpc_started, extend_rpc_modules } = hooks; the launch
\* calls the hook each field holds
CallExtendRpcModules(op, ok) ==
    /\ <<op, ok>> \in HookBehaviours(hooks.extend_rpc_modules)
    /\ ExtendRpcModules(op, ok)

CallOnRpcStarted(op, ok) ==
    /\ <<op, ok>> \in HookBehaviours(hooks.on_rpc_started)
    /\ OnRpcStarted(op, ok)

\* ------------------------------------------------------------------------
\* BasicEngineApiBuilder::build_engine_api
\* ------------------------------------------------------------------------

\* engine_validator_builder.build(ctx) is called and awaited
BuildValidator ==
    /\ pc = "await_engine_api"
    /\ engine.pc = "idle"
    /\ engine' = [engine EXCEPT !.pc = "await_validator",
                                !.validator_calls = @ + 1,
                                !.log = Append(@, <<"validator", "start">>)]
    /\ UNCHANGED <<run_vars, hooks, hook_log, entry, other_vars>>

\* a builder that constructs the handler although the validator builder failed
ValidatorDone_noq(ok) ==
    /\ pc = "await_engine_api"
    /\ engine.pc = "await_validator"
    /\ engine' = [engine EXCEPT !.pc = "new", !.validator = ok,
                                !.log = Append(@, <<"validator", IF ok THEN "ok" ELSE "err">>)]
    /\ UNCHANGED <<run_vars, hooks, hook_log, entry, other_vars>>

\* the validator builder's future resolves: `.await?`
ValidatorDone(ok) ==
    /\ pc = "await_engine_api"
    /\ engine.pc = "await_validator"
    /\ engine' = IF ok
                   THEN [engine EXCEPT !.pc = "new", !.validator = TRUE,
                                       !.log = Append(@, <<"validator", "ok">>)]
                   ELSE [engine EXCEPT !.pc = "failed",
                                       !.log = Append(@, <<"validator", "err">>)]
    /\ UNCHANGED <<run_vars, hooks, hook_log, entry, other_vars>>

\* Ok(EngineApi::new(.., engine_validator, ..))
EngineApiNew ==
    /\ pc = "await_engine_api"
    /\ engine.pc = "new"
    /\ engine' = [engine EXCEPT !.pc = "built", !.handler = TRUE,
                                !.log = Append(@, <<"handler", "ok">>)]
    /\ UNCHANGED <<run_vars, hooks, hook_log, entry, other_vars>>

\* the launch receives what build_engine_api returned
BasicEngineApiDone ==
    /\ engine.pc \in {"built", "failed"}
    /\ EngineApiDone(engine.pc = "built")

\* ------------------------------------------------------------------------
\* Specification
\* ------------------------------------------------------------------------

Next ==
    \/ BuildEngineApi
    \/ \E ok \in BOOLEAN : EngineApiDone(ok)
    \/ SpawnCache
    \/ SpawnFeedTask
    \/ FeedTaskEnd
    \/ BuildEthApi
    \/ \E ok \in BOOLEAN : EthApiDone(ok)
    \/ \E ok \in BOOLEAN : AuthServerConfig(ok)
    \/ BuildWithAuthServer
    \/ DevAccounts
    \/ \E op \in HookOps, ok \in BOOLEAN : Ext(op, ok)
    \/ \E op \in HookOps, ok \in BOOLEAN : ExtendRpcModules(op, ok)
    \/ StartServers
    \/ \E srv \in Servers, out \in {"pending", "ok", "err"}, ep \in Endpoints : Poll(srv, out, ep)
    \/ AssembleHandles
    \/ \E op \in HookOps, ok \in BOOLEAN : OnRpcStarted(op, ok)
    \/ ReturnHandle
    \/ StreamEnd("closed")

Spec == Init /\ [][Next]_vars

\* The launch with hooks that leave the modules alone, next to a provider
\* that publishes updates and whose stream may end gracefully or in error.
NoOp == {<<"none", 0>>}

FeedNext ==
    \/ BuildEngineApi
    \/ \E ok \in BOOLEAN : EngineApiDone(ok)
    \/ SpawnCache
    \/ SpawnFeedTask
    \/ BuildEthApi
    \/ \E ok \in BOOLEAN : EthApiDone(ok)
    \/ \E ok \in BOOLEAN : AuthServerConfig(ok)
    \/ BuildWithAuthServer
    \/ DevAccounts
    \/ \E op \in NoOp, ok \in BOOLEAN : Ext(op, ok)
    \/ \E op \in NoOp, ok \in BOOLEAN : ExtendRpcModules(op, ok)
    \/ StartServers
    \/ \E srv \in Servers, out \in {"pending", "ok", "err"}, ep \in Endpoints : Poll(srv, out, ep)
    \/ AssembleHandles
    \/ \E op \in NoOp, ok \in BOOLEAN : OnRpcStarted(op, ok)
    \/ ReturnHandle
    \/ Publish
    \/ \E how \in {"closed", "error"} : StreamEnd(how)
    \/ FeedOne
    \/ FeedTaskEnd
    \/ FeedTaskFault

FeedSpec == Init /\ [][FeedNext]_vars

\* the task executor runs a spawned task whenever it can make a step
FairFeedSpec ==
    FeedSpec /\ WF_vars(FeedOne) /\ WF_vars(FeedTaskEnd) /\ WF_vars(FeedTaskFault)

\* RpcAddOns::new, then hook registrations, then launch_add_ons or
\* launch_add_ons_with
HookInit ==
    /\ LaunchInit
    /\ hooks = RpcHooks_default
    /\ entry \in {"launch_add_ons", "launch_add_ons_with"}
    /\ OpIdle
    /\ CapIdle
    /\ ProfIdle

HookNext ==
    \/ \E h \in HookIds : set_on_rpc_started(h)
    \/ \E h \in HookIds : set_extend_rpc_modules(h)
    \/ BuildEngineApi
    \/ \E ok \in BOOLEAN : EngineApiDone(ok)
    \/ SpawnCache
    \/ SpawnFeedTask
    \/ BuildEthApi
    \/ \E ok \in BOOLEAN : EthApiDone(ok)
    \/ \E ok \in BOOLEAN : AuthServerConfig(ok)
    \/ BuildWithAuthServer
    \/ DevAccounts
    \/ \E op \in CallerOps, ok \in BOOLEAN : CallExt(op, ok)
    \/ \E op \in CallerOps, ok \in BOOLEAN : CallExtendRpcModules(op, ok)
    \/ StartServers
    \/ \E srv \in Servers, out \in {"pending", "ok", "err"}, ep \in Endpoints : Poll(srv, out, ep)
    \/ AssembleHandles
    \/ \E op \in CallerOps, ok \in BOOLEAN : CallOnRpcStarted(op, ok)
    \/ ReturnHandle

HookSpec == HookInit /\ [][HookNext]_vars

\* The launch of an RpcAddOns whose Engine API builder is the
\* BasicEngineApiBuilder.
BasicNext ==
    \/ BuildEngineApi
    \/ BuildValidator
    \/ \E ok \in BOOLEAN : ValidatorDone(ok)
    \/ EngineApiNew
    \/ BasicEngineApiDone
    \/ SpawnCache
    \/ SpawnFeedTask
    \/ BuildEthApi
    \/ \E ok \in BOOLEAN : EthApiDone(ok)
    \/ \E ok \in BOOLEAN : AuthServerConfig(ok)
    \/ BuildWithAuthServer
    \/ DevAccounts
    \/ \E op \in NoOp, ok \in BOOLEAN : Ext(op, ok)
    \/ \E op \in NoOp, ok \in BOOLEAN : ExtendRpcModules(op, ok)
    \/ StartServers
    \/ \E srv \in Servers, out \in {"pending", "ok", "err"}, ep \in Endpoints : Poll(srv, out, ep)
    \/ AssembleHandles
    \/ \E op \in NoOp, ok \in BOOLEAN : OnRpcStarted(op, ok)
    \/ ReturnHandle

BasicSpec == Init /\ [][BasicNext]_vars

\* ------------------------------------------------------------------------
\* OpEthApi::send_raw_transaction
\* ------------------------------------------------------------------------

\* a node that is not launching
LaunchIdle ==
    /\ LaunchInit
    /\ ~dev
    /\ hooks = RpcHooks_default
    /\ entry = "launch_add_ons"

\* raw transaction bytes: a signed transaction, bytes that do not decode, or
\* a transaction whose signature does not recover
RawTxs == {"signed", "garbage", "badsig"} \X (1..NumTxs)

\* recover_raw_transaction(&tx)
recover_raw_transaction(tx) ==
    CASE tx[1] = "signed" -> [ok |-> TRUE, hash |-> tx[2], err |-> "none"]
      [] tx[1] = "garbage" -> [ok |-> FALSE, hash |-> 0, err |-> "FailedToDecodeSignedTransaction"]
      [] OTHER -> [ok |-> FALSE, hash |-> 0, err |-> "InvalidTransactionSignature"]

NoCall == [tx |-> <<"none", 0>>, recovered |-> FALSE, pool_transaction |-> 0,
           fwd_out |-> "none", pool_out |-> "none", ret |-> <<"none", 0>>, log |-> <<>>]

OpInit ==
    /\ LaunchIdle
    /\ CapIdle
    /\ ProfIdle
    /\ \E seq \in BOOLEAN :
          opapi = [pc |-> "idle", sequencer_client |-> seq, ncalls |-> 0, call |-> NoCall,
                   forwarded |-> <<>>, pool |-> <<>>]

op_frame == UNCHANGED <<launch_vars, caps, prof_vars>>

OpLog(c, ev) == [c EXCEPT !.log = Append(@, ev)]

\* send_raw_transaction(tx) is called
SendRawTransaction(tx) ==
    /\ opapi.pc = "idle"
    /\ opapi.ncalls < MaxCalls
    /\ opapi' = [opapi EXCEPT !.pc = "recover", !.ncalls = @ + 1,
                              !.call = [NoCall EXCEPT !.tx = tx]]
    /\ op_frame

\* let recovered = recover_raw_transaction(&tx)?; from_pooled(recovered);
\* if let Some(client) = self.raw_tx_forwarder().as_ref()
Recover ==
    /\ opapi.pc = "recover"
    /\ LET r == recover_raw_transaction(opapi.call.tx)
       IN opapi' =
            IF r.ok
              THEN [opapi EXCEPT !.pc = IF opapi.sequencer_client THEN "forward" ELSE "pool",
                                 !.call = [OpLog(@, "recovered") EXCEPT
                                              !.recovered = TRUE,
                                              !.pool_transaction = r.hash]]
              ELSE [opapi EXCEPT !.pc = "returned",
                                 !.call = [OpLog(@, "return") EXCEPT !.ret = <<"err", r.err>>]]
    /\ op_frame

\* client.forward_raw_transaction(&tx) is called and awaited
Forward ==
    /\ opapi.pc = "forward"
    /\ opapi' = [opapi EXCEPT !.pc = "await_forward",
                              !.forwarded = Append(@, opapi.call.tx),
                              !.call = OpLog(@, "forward")]
    /\ op_frame

\* a forwarding failure that is returned to the caller
ForwardDone_q(ok) ==
    /\ opapi.pc = "await_forward"
    /\ opapi' =
         IF ok
           THEN [opapi EXCEPT !.pc = "pool", !.call.fwd_out = "ok"]
           ELSE [opapi EXCEPT !.pc = "returned",
                              !.call = [OpLog(@, "return") EXCEPT
                                           !.fwd_out = "err", !.ret = <<"err", "SequencerErr">>]]
    /\ op_frame

\* let _ = ...await.inspect_err(..): the result of the forward is logged
\* and dropped
ForwardDone(ok) ==
    /\ opapi.pc = "await_forward"
    /\ opapi' = [opapi EXCEPT !.pc = "pool",
                              !.call.fwd_out = IF ok THEN "ok" ELSE "err"]
    /\ op_frame

\* self.pool().add_transaction(TransactionOrigin::Local, pool_transaction)
PoolAdd ==
    /\ opapi.pc = "pool"
    /\ opapi' = [opapi EXCEPT !.pc = "await_pool",
                              !.pool = Append(@, <<"Local", opapi.call.pool_transaction>>),
                              !.call = OpLog(@, "pool")]
    /\ op_frame

\* .await.map_err(Self::Error::from_eth_err)?; Ok(hash)
PoolDone(ok) ==
    /\ opapi.pc = "await_pool"
    /\ opapi' = [opapi EXCEPT
                    !.pc = "returned",
                    !.call = [OpLog(@, "return") EXCEPT
                                 !.pool_out = IF ok THEN "ok" ELSE "err",
                                 !.ret = IF ok THEN <<"ok", opapi.call.pool_transaction>>
                                               ELSE <<"err", "PoolErr">>]]
    /\ op_frame

\* the caller has the result
OpReturn ==
    /\ opapi.pc = "returned"
    /\ opapi' = [opapi EXCEPT !.pc = "idle"]
    /\ op_frame

OpNext ==
    \/ \E tx \in RawTxs : SendRawTransaction(tx)
    \/ Recover
    \/ Forward
    \/ \E ok \in BOOLEAN : ForwardDone(ok)
    \/ PoolAdd
    \/ \E ok \in BOOLEAN : PoolDone(ok)
    \/ OpReturn

OpSpec == OpInit /\ [][OpNext]_vars

\* ------------------------------------------------------------------------
\* Capability and Capabilities
\* ------------------------------------------------------------------------

\* "Valid eth protocol versions are 66-69"
ValidEthVersions == 66..69

\* Capability { name, version }: the names and versions of the inputs
CapNames == {"eth", "snap"}

CapVersions == {0, 322} \cup ValidEthVersions

Capability == [name : CapNames, version : CapVersions]

CapLists == UNION {[1..n -> Capability] : n \in 0..MaxCaps}

is_eth_v66(c) == c.name = "eth" /\ c.version = 66

is_eth_v67(c) == c.name = "eth" /\ c.version = 67

is_eth_v68(c) == c.name = "eth" /\ c.version = 68

\* "Whether this is any eth version."
is_eth(c) == is_eth_v66(c) \/ is_eth_v67(c) \/ is_eth_v68(c)

\* value.iter().any(f)
any(value, f(_)) == \E i \in DOMAIN value : f(value[i])

\* impl From<Vec<Capability>> for Capabilities
Capabilities_from(value) ==
    [inner |-> value,
     eth_66 |-> any(value, is_eth_v66),
     eth_67 |-> any(value, is_eth_v67),
     eth_68 |-> any(value, is_eth_v68)]

\* the big-endian bytes of an RLP integer, without leading zeros
RECURSIVE to_be_bytes(_)
to_be_bytes(n) == IF n = 0 THEN <<>> ELSE Append(to_be_bytes(n \div 256), n % 256)

RECURSIVE from_be_bytes(_)
from_be_bytes(bs) ==
    IF bs = <<>> THEN 0
    ELSE from_be_bytes(SubSeq(bs, 1, Len(bs) - 1)) * 256 + bs[Len(bs)]

\* #[derive(RlpEncodable)] on Capability: the list [name, version]
Capability_encode(c) == <<"list", << <<"str", c.name>>, <<"int", to_be_bytes(c.version)>> >> >>

\* impl Encodable for Capabilities: self.inner.encode(out)
Capabilities_encode(v) ==
    <<"list", [i \in DOMAIN v.inner |-> Capability_encode(v.inner[i])]>>

\* #[derive(RlpDecodable)] on Capability
Capability_decode(item) ==
    [name |-> item[2][1][2], version |-> from_be_bytes(item[2][2][2])]

\* whether an item is the encoding of a capability
Capability_decodes(item) ==
    /\ item[1] = "list"
    /\ Len(item[2]) = 2
    /\ item[2][1][1] = "str"
    /\ item[2][2][1] = "int"
    /\ (item[2][2][2] # <<>> => item[2][2][2][1] # 0)

\* a decode that takes the v67 flag for the v68 flag
Capabilities_decode_swapped(buf) ==
    IF buf[1] = "list" /\ \A i \in DOMAIN buf[2] : Capability_decodes(buf[2][i])
      THEN LET inner == [i \in DOMAIN buf[2] |-> Capability_decode(buf[2][i])]
           IN [ok |-> TRUE,
               value |-> [inner |-> inner,
                          eth_66 |-> any(inner, is_eth_v66),
                          eth_67 |-> any(inner, is_eth_v67),
                          eth_68 |-> any(inner, is_eth_v67)]]
      ELSE [ok |-> FALSE, value |-> Capabilities_from(<<>>)]

\* impl Decodable for Capabilities: Vec::<Capability>::decode(buf)?, then
\* the three flags
Capabilities_decode(buf) ==
    IF buf[1] = "list" /\ \A i \in DOMAIN buf[2] : Capability_decodes(buf[2][i])
      THEN LET inner == [i \in DOMAIN buf[2] |-> Capability_decode(buf[2][i])]
           IN [ok |-> TRUE,
               value |-> [inner |-> inner,
                          eth_66 |-> any(inner, is_eth_v66),
                          eth_67 |-> any(inner, is_eth_v67),
                          eth_68 |-> any(inner, is_eth_v68)]]
      ELSE [ok |-> FALSE, value |-> Capabilities_from(<<>>)]

supports_eth_v66(v) == v.eth_66

supports_eth_v67(v) == v.eth_67

supports_eth_v68(v) == v.eth_68

supports_eth(v) == v.eth_68 \/ v.eth_67 \/ v.eth_66

capabilities(v) == v.inner

CapInit ==
    /\ LaunchIdle
    /\ OpIdle
    /\ ProfIdle
    /\ \E l \in CapLists :
          caps = [pc |-> "input", list |-> l, from_vec |-> Capabilities_from(<<>>),
                  wire |-> <<>>, decoded |-> [ok |-> FALSE, value |-> Capabilities_from(<<>>)],
                  is_eth |-> <<>>]

cap_frame == UNCHANGED <<launch_vars, opapi, prof_vars>>

\* Capabilities::from(list)
FromVec ==
    /\ caps.pc = "input"
    /\ caps' = [caps EXCEPT !.pc = "built", !.from_vec = Capabilities_from(caps.list)]
    /\ cap_frame

\* the value is encoded for the wire
Encode ==
    /\ caps.pc = "built"
    /\ caps' = [caps EXCEPT !.pc = "encoded", !.wire = Capabilities_encode(caps.from_vec)]
    /\ cap_frame

\* Capabilities::decode(&mut buf)
Decode ==
    /\ caps.pc = "encoded"
    /\ caps' = [caps EXCEPT !.pc = "decoded", !.decoded = Capabilities_decode(caps.wire)]
    /\ cap_frame

\* is_eth is asked of each capability of the list
Classify ==
    /\ caps.pc = "decoded"
    /\ caps' = [caps EXCEPT !.pc = "classified",
                            !.is_eth = [i \in DOMAIN caps.list |-> is_eth(caps.list[i])]]
    /\ cap_frame

CapNext ==
    \/ FromVec
    \/ Encode
    \/ Decode
    \/ Classify

CapSpec == CapInit /\ [][CapNext]_vars

\* ------------------------------------------------------------------------
\* The opcode profiler of interpreter/src/parallel.rs
\* ------------------------------------------------------------------------

Workers == 1..NumWorkers

Printers == (NumWorkers + 1)..(NumWorkers + NumPrinters)

\* the op bytes and run times callers pass
OpBytes == {0, 1, 12}

RunTimes == {2}

\* OpCode::new(op): Some for a byte the opcode table defines
OpCode_new(op) ==
    CASE op = 0 -> [some |-> TRUE, as_str |-> "STOP"]
      [] op = 1 -> [some |-> TRUE, as_str |-> "ADD"]
      [] OTHER -> [some |-> FALSE, as_str |-> ""]

\* map.entry(k).or_insert(0), then += v
AddTo(map, k, v) ==
    IF k \in DOMAIN map THEN [map EXCEPT ![k] = @ + v] ELSE map @@ (k :> v)

ProfInit ==
    /\ LaunchIdle
    /\ OpIdle
    /\ CapIdle
    /\ CHANNEL = [queue |-> <<>>, receiver |-> 0]
    /\ OP_COUNT_MAP = NoMap
    /\ OP_TIME_MAP = NoMap
    /\ threads = [t \in Workers \cup Printers |->
                     [kind |-> IF t \in Workers THEN "worker" ELSE "printer",
                      pc |-> "off", msg |-> NoMsg, op_code |-> "",
                      keys |-> {}, key |-> ""]]
    /\ prof_log = NoProfLog

prof_frame == UNCHANGED <<launch_vars, opapi, caps>>

At(t, where) == t \in DOMAIN threads /\ threads[t].pc = where

\* start_channel(): thread::spawn of one worker loop
start_channel(w) ==
    /\ w \in Workers
    /\ At(w, "off")
    /\ \A v \in Workers : v < w => ~At(v, "off")
    /\ threads' = [threads EXCEPT ![w].pc = "lock_receiver"]
    /\ UNCHANGED <<CHANNEL, OP_COUNT_MAP, OP_TIME_MAP, prof_log>>
    /\ prof_frame

\* update_total_op_count_and_time(op, run_time): CHANNEL.0.send(map_value)
update_total_op_count_and_time(op, run_time) ==
    /\ Len(prof_log.sent) < MaxSends
    /\ LET m == [id |-> Len(prof_log.sent) + 1, op |-> op, run_time |-> run_time]
       IN /\ CHANNEL' = [CHANNEL EXCEPT !.queue = Append(@, m)]
          /\ prof_log' = [prof_log EXCEPT !.sent = Append(@, m)]
    /\ UNCHANGED <<OP_COUNT_MAP, OP_TIME_MAP, threads>>
    /\ prof_frame

\* let receiver = CHANNEL.1.lock().unwrap();
LockReceiver(w) ==
    /\ At(w, "lock_receiver")
    /\ CHANNEL.receiver = 0
    /\ CHANNEL' = [CHANNEL EXCEPT !.receiver = w]
    /\ threads' = [threads EXCEPT ![w].pc = "recv"]
    /\ UNCHANGED <<OP_COUNT_MAP, OP_TIME_MAP, prof_log>>
    /\ prof_frame

\* receiver.recv() returns a message; the guard is dropped at the end of
\* the block
Recv(w) ==
    /\ At(w, "recv")
    /\ CHANNEL.queue # <<>>
    /\ CHANNEL' = [queue |-> Tail(CHANNEL.queue), receiver |-> 0]
    /\ threads' = [threads EXCEPT ![w].pc = "op_code", ![w].msg = Head(CHANNEL.queue)]
    /\ prof_log' = [prof_log EXCEPT !.received = Append(@, <<Head(CHANNEL.queue).id, w>>)]
    /\ UNCHANGED <<OP_COUNT_MAP, OP_TIME_MAP>>
    /\ prof_frame

\* let op_code = OpCode::new(op).unwrap().as_str(); the unwrap of None
\* panics and the thread ends
OpCodeUnwrap(w) ==
    /\ At(w, "op_code")
    /\ LET oc == OpCode_new(threads[w].msg.op)
       IN threads' = IF oc.some
                       THEN [threads EXCEPT ![w].pc = "lock_first", ![w].op_code = oc.as_str]
                       ELSE [threads EXCEPT ![w].pc = "panicked"]
    /\ UNCHANGED <<CHANNEL, OP_COUNT_MAP, OP_TIME_MAP, prof_log>>
    /\ prof_frame

\* a worker that takes OP_TIME_MAP before OP_COUNT_MAP
WorkerLockOrder_reversed == <<"OP_TIME_MAP", "OP_COUNT_MAP">>

\* the worker locks OP_COUNT_MAP, then OP_TIME_MAP
WorkerLockOrder == <<"OP_COUNT_MAP", "OP_TIME_MAP">>

\* what the worker adds to a map
Addend(name, msg) == IF name = "OP_COUNT_MAP" THEN 1 ELSE msg.run_time

\* X.lock().unwrap() by thread t, then entry(k).or_insert(0) += v; locking a
\* poisoned mutex panics
LockAndAdd(name, t, k, v) ==
    IF name = "OP_COUNT_MAP"
      THEN /\ OP_COUNT_MAP.lock = 0
           /\ OP_COUNT_MAP' = IF OP_COUNT_MAP.poisoned THEN OP_COUNT_MAP
                               ELSE [OP_COUNT_MAP EXCEPT !.lock = t, !.map = AddTo(@, k, v)]
           /\ UNCHANGED OP_TIME_MAP
      ELSE /\ OP_TIME_MAP.lock = 0
           /\ OP_TIME_MAP' = IF OP_TIME_MAP.poisoned THEN OP_TIME_MAP
                              ELSE [OP_TIME_MAP EXCEPT !.lock = t, !.map = AddTo(@, k, v)]
           /\ UNCHANGED OP_COUNT_MAP

Poisoned(name) ==
    IF name = "OP_COUNT_MAP" THEN OP_COUNT_MAP.poisoned ELSE OP_TIME_MAP.poisoned

\* a worker whose first guard is a temporary, dropped before the second lock
LockFirst_temp(w) ==
    /\ At(w, "lock_first")
    /\ OP_COUNT_MAP.lock = 0
    /\ OP_COUNT_MAP' = [OP_COUNT_MAP EXCEPT !.map = AddTo(@, threads[w].op_code, 1)]
    /\ threads' = [threads EXCEPT ![w].pc = "lock_second"]
    /\ UNCHANGED <<CHANNEL, OP_TIME_MAP, prof_log>>
    /\ prof_frame

\* let mut op_count_map_temp = OP_COUNT_MAP.lock().unwrap(); *op_count += 1;
LockFirst(w) ==
    /\ At(w, "lock_first")
    /\ LockAndAdd(WorkerLockOrder[1], w, threads[w].op_code,
                  Addend(WorkerLockOrder[1], threads[w].msg))
    /\ threads' = [threads EXCEPT ![w].pc = IF Poisoned(WorkerLockOrder[1])
                                              THEN "panicked" ELSE "lock_second"]
    /\ UNCHANGED <<CHANNEL, prof_log>>
    /\ prof_frame

\* let mut op_time_map_temp = OP_TIME_MAP.lock().unwrap(); *op_time += op_run_time;
\* a panic here unwinds through the first guard and poisons its mutex
LockSecond(w) ==
    /\ At(w, "lock_second")
    /\ IF Poisoned(WorkerLockOrder[2])
         THEN /\ threads' = [threads EXCEPT ![w].pc = "panicked"]
              /\ IF WorkerLockOrder[1] = "OP_COUNT_MAP"
                   THEN /\ OP_COUNT_MAP' = [OP_COUNT_MAP EXCEPT !.lock = 0, !.poisoned = TRUE]
                        /\ UNCHANGED OP_TIME_MAP
                   ELSE /\ OP_TIME_MAP' = [OP_TIME_MAP EXCEPT !.lock = 0, !.poisoned = TRUE]
                        /\ UNCHANGED OP_COUNT_MAP
              /\ UNCHANGED prof_log
         ELSE /\ LockAndAdd(WorkerLockOrder[2], w, threads[w].op_code,
                            Addend(WorkerLockOrder[2], threads[w].msg))
              /\ threads' = [threads EXCEPT ![w].pc = "drop"]
              /\ prof_log' = [prof_log EXCEPT !.counted = @ \cup {threads[w].msg.id}]
    /\ UNCHANGED CHANNEL
    /\ prof_frame

\* end of the loop body: the guards are dropped, the second first; the
\* message had one entry, so the for loop ends and the worker loops
DropGuards(w) ==
    /\ At(w, "drop")
    /\ OP_TIME_MAP' = [OP_TIME_MAP EXCEPT !.lock = IF @ = w THEN 0 ELSE @]
    /\ OP_COUNT_MAP' = [OP_COUNT_MAP EXCEPT !.lock = IF @ = w THEN 0 ELSE @]
    /\ threads' = [threads EXCEPT ![w].pc = "lock_receiver", ![w].msg = NoMsg,
                                  ![w].op_code = ""]
    /\ UNCHANGED <<CHANNEL, prof_log>>
    /\ prof_frame

\* print_records() is called
print_records(p) ==
    /\ p \in Printers
    /\ At(p, "off")
    /\ threads' = [threads EXCEPT ![p].pc = "lock_count"]
    /\ UNCHANGED <<CHANNEL, OP_COUNT_MAP, OP_TIME_MAP, prof_log>>
    /\ prof_frame

\* the iteration goes on with any key not yet visited (the order of a
\* HashMap), or ends and the guard on OP_COUNT_MAP is dropped
Iterate(p, rest, thr) ==
    IF rest = {}
      THEN /\ threads' = [thr EXCEPT ![p].pc = "done", ![p].keys = {}, ![p].key = ""]
           /\ OP_COUNT_MAP' = [OP_COUNT_MAP EXCEPT !.lock = 0]
      ELSE /\ \E k \in rest :
                 threads' = [thr EXCEPT ![p].pc = "lock_time", ![p].key = k,
                                        ![p].keys = rest \ {k}]
           /\ OP_COUNT_MAP' = [OP_COUNT_MAP EXCEPT !.lock = p]

\* OP_COUNT_MAP.lock().unwrap().iter(): the guard lives as long as the loop
PrintLockCount(p) ==
    /\ At(p, "lock_count")
    /\ OP_COUNT_MAP.lock = 0
    /\ IF OP_COUNT_MAP.poisoned
         THEN /\ threads' = [threads EXCEPT ![p].pc = "panicked"]
              /\ UNCHANGED OP_COUNT_MAP
         ELSE Iterate(p, DOMAIN OP_COUNT_MAP.map, threads)
    /\ UNCHANGED <<CHANNEL, OP_TIME_MAP, prof_log>>
    /\ prof_frame

\* OP_TIME_MAP.lock().unwrap()
PrintLockTime(p) ==
    /\ At(p, "lock_time")
    /\ OP_TIME_MAP.lock = 0
    /\ IF OP_TIME_MAP.poisoned
         THEN /\ threads' = [threads EXCEPT ![p].pc = "panicked"]
              /\ OP_COUNT_MAP' = [OP_COUNT_MAP EXCEPT !.lock = 0, !.poisoned = TRUE]
              /\ UNCHANGED OP_TIME_MAP
         ELSE /\ OP_TIME_MAP' = [OP_TIME_MAP EXCEPT !.lock = p]
              /\ threads' = [threads EXCEPT ![p].pc = "get"]
              /\ UNCHANGED OP_COUNT_MAP
    /\ UNCHANGED <<CHANNEL, prof_log>>
    /\ prof_frame

\* *guard.get(result_op_code).unwrap(), println!; the guard on OP_TIME_MAP is
\* dropped at the end of the statement and the loop goes on; the unwrap of
\* None panics and poisons both mutexes
PrintGet(p) ==
    /\ At(p, "get")
    /\ IF threads[p].key \in DOMAIN OP_TIME_MAP.map
         THEN /\ Iterate(p, threads[p].keys, threads)
              /\ OP_TIME_MAP' = [OP_TIME_MAP EXCEPT !.lock = 0]
         ELSE /\ threads' = [threads EXCEPT ![p].pc = "panicked"]
              /\ OP_TIME_MAP' = [OP_TIME_MAP EXCEPT !.lock = 0, !.poisoned = TRUE]
              /\ OP_COUNT_MAP' = [OP_COUNT_MAP EXCEPT !.lock = 0, !.poisoned = TRUE]
    /\ UNCHANGED <<CHANNEL, prof_log>>
    /\ prof_frame

ProfNext ==
    \/ \E w \in Workers : start_channel(w)
    \/ \E op \in OpBytes, run_time \in RunTimes : update_total_op_count_and_time(op, run_time)
    \/ \E w \in Workers : LockReceiver(w)
    \/ \E w \in Workers : Recv(w)
    \/ \E w \in Workers : OpCodeUnwrap(w)
    \/ \E w \in Workers : LockFirst(w)
    \/ \E w \in Workers : LockSecond(w)
    \/ \E w \in Workers : DropGuards(w)
    \/ \E p \in Printers : print_records(p)
    \/ \E p \in Printers : PrintLockCount(p)
    \/ \E p \in Printers : PrintLockTime(p)
    \/ \E p \in Printers : PrintGet(p)

ProfSpec == ProfInit /\ [][ProfNext]_vars

\* the steps of one spawned worker thread and of one print_records call
WorkerStep(w) ==
    \/ LockReceiver(w)
    \/ Recv(w)
    \/ OpCodeUnwrap(w)
    \/ LockFirst(w)
    \/ LockSecond(w)
    \/ DropGuards(w)

PrinterStep(p) ==
    \/ PrintLockCount(p)
    \/ PrintLockTime(p)
    \/ PrintGet(p)

\* fair scheduling: a thread that can take a step is not held back for ever;
\* nothing obliges a caller to call start_channel, print_records or to send
FairProfSpec ==
    /\ ProfSpec
    /\ \A w \in Workers : WF_vars(WorkerStep(w))
    /\ \A p \in Printers : WF_vars(PrinterStep(p))

\* ------------------------------------------------------------------------
\* Reading the history
\* ------------------------------------------------------------------------

Has(e) == \E i \in DOMAIN trace : trace[i] = e

Before(e1, e2) == \E i, j \in DOMAIN trace : i < j /\ trace[i] = e1 /\ trace[j] = e2

Phases == {"engine_api", "cache", "feed_spawn", "eth_api", "assemble", "dev_accounts",
           "ext", "extend_rpc_modules", "bind_rpc", "bind_auth", "handles",
           "on_rpc_started", "return"}

\* the position of a phase in the launch sequence; the two binds share one
Rank(ph) ==
    CASE ph = "engine_api" -> 1
      [] ph = "cache" -> 2
      [] ph = "feed_spawn" -> 3
      [] ph = "eth_api" -> 4
      [] ph = "assemble" -> 5
      [] ph = "dev_accounts" -> 6
      [] ph = "ext" -> 7
      [] ph = "extend_rpc_modules" -> 8
      [] ph = "bind_rpc" -> 9
      [] ph = "bind_auth" -> 9
      [] ph = "handles" -> 10
      [] ph = "on_rpc_started" -> 11
      [] ph = "return" -> 12

\* dev-account injection is part of the sequence only in dev mode
Applies(ph) == ph # "dev_accounts" \/ dev

BoundAt(srv, ep) == \E l \in listeners : l.srv = srv /\ l.ep = ep

BindFailed == Has(<<"bind_rpc", "err">>) \/ Has(<<"bind_auth", "err">>)

\* ------------------------------------------------------------------------
\* Claims
\* ------------------------------------------------------------------------

\* C1: the phases of a launch happen in the order Engine API build, cache
\* creation, feed-task spawn, Eth API build (with the handle of that cache),
\* module assembly, dev-account injection, caller override, registered
\* pre-launch hook, the two binds, handle assembly, post-launch hook, return;
\* a phase starts only after every earlier phase completed successfully, and
\* only the two binds are unordered with respect to each other.
C1_PhaseOrder ==
    /\ \A i, j \in DOMAIN trace : i < j =>
          \/ Rank(trace[i][1]) < Rank(trace[j][1])
          \/ {trace[i][1], trace[j][1]} = {"bind_rpc", "bind_auth"}
          \/ /\ trace[i][1] = trace[j][1]
             /\ trace[i][2] = "start"
             /\ trace[j][2] # "start"
    /\ \A j \in DOMAIN trace : trace[j][2] \in {"start", "ok"} =>
          \A q \in Phases : (Rank(q) < Rank(trace[j][1]) /\ Applies(q)) =>
              \E i \in 1..(j - 1) : trace[i] = <<q, "ok">>
    /\ eth_ctx.built => eth_ctx.cache = "spawned"
    /\ result = "ok" <=> Has(<<"return", "ok">>)

C1_Witness ==
    /\ result = "ok"
    /\ dev
    /\ Before(<<"bind_auth", "ok">>, <<"bind_rpc", "ok">>)

\* C2: when the Engine API builder fails the launch returns that error and
\* nothing later has happened: no cache, no feed task, no Eth API build, no
\* override, no hook, no bind, no listener.
C2_EngineApiFailure ==
    Has(<<"engine_api", "err">>) =>
        /\ pc = "returned"
        /\ result = "EngineApiErr"
        /\ trace = << <<"engine_api", "start">>, <<"engine_api", "err">>, <<"return", "err">> >>
        /\ cache = "none"
        /\ feed_task = "none"
        /\ \A w \in DOMAIN calls : w # "build_engine_api" => calls[w] = 0
        /\ \A s \in Servers : fut[s] = "none"
        /\ listeners = {}
        /\ ~rpc_handle.some

C2_Witness == result = "EngineApiErr"

\* C3: when the caller override or the registered pre-launch hook fails the
\* launch returns that error, no bind future is created or polled, no
\* listener is bound and the post-launch hook is not invoked.
C3_PreLaunchFailure ==
    \A h \in {"ext", "extend_rpc_modules"} : Has(<<h, "err">>) =>
        /\ pc = "returned"
        /\ result = (IF h = "ext" THEN "ExtErr" ELSE "ExtendRpcModulesErr")
        /\ \A s \in Servers : fut[s] = "none"
        /\ calls["bind_rpc"] = 0 /\ calls["bind_auth"] = 0
        /\ listeners = {}
        /\ calls["on_rpc_started"] = 0
        /\ ~rpc_handle.some

C3_Witness == result = "ExtendRpcModulesErr" /\ calls["ext"] = 1

\* C4: the caller override runs before the registered pre-launch hook, the
\* hook finds modules, auth module and registry as the override left them,
\* and the hook is not invoked when the override fails.
C4_OverrideThenHook ==
    /\ calls["extend_rpc_modules"] > 0 =>
          /\ Before(<<"ext", "ok">>, <<"extend_rpc_modules", "start">>)
          /\ obs["extend_seen"] = obs["ext_left"]
    /\ Has(<<"ext", "err">>) => calls["extend_rpc_modules"] = 0

C4_Witness ==
    /\ calls["extend_rpc_modules"] = 1
    /\ obs["ext_left"].modules # AssembledModules
    /\ obs["extend_seen"].modules # AssembledModules

\* C5: the post-launch hook is invoked at most once, only after both binds
\* succeeded, with the handles of the two listeners bound in this launch,
\* which are the handles of the returned RpcHandle; it has run once when the
\* launch is past it, and never when a bind failed.
C5_PostLaunchHook ==
    /\ calls["on_rpc_started"] <= 1
    /\ calls["on_rpc_started"] = 1 =>
          /\ Before(<<"bind_rpc", "ok">>, <<"on_rpc_started", "start">>)
          /\ Before(<<"bind_auth", "ok">>, <<"on_rpc_started", "start">>)
          /\ \A s \in Servers : BoundAt(s, hook_handles[s])
    /\ rpc_handle.some => rpc_handle.rpc_server_handles = hook_handles
    /\ BindFailed => calls["on_rpc_started"] = 0
    /\ (pc = "returned" /\ Has(<<"bind_rpc", "ok">>) /\ Has(<<"bind_auth", "ok">>))
          => calls["on_rpc_started"] = 1

C5_Witness ==
    /\ result = "ok"
    /\ calls["on_rpc_started"] = 1
    /\ hook_handles["rpc"] = "e2"

\* C6: when the post-launch hook fails the launch returns that error and no
\* RpcHandle, and both listeners are still bound.
C6_PostLaunchFailure ==
    Has(<<"on_rpc_started", "err">>) =>
        /\ pc = "returned"
        /\ result = "OnRpcStartedErr"
        /\ ~rpc_handle.some
        /\ \A s \in Servers : BoundAt(s, handles[s])

C6_Witness == result = "OnRpcStartedErr" /\ Cardinality(listeners) = 2

\* C7: in every state in which a bind has failed the launch has already
\* returned the error of that bind, whatever the state of the other bind;
\* handle assembly is reached only with both binds successful.
C7_FirstBindError ==
    /\ \A s \in Servers : (fut[s] = "err" \/ Has(<<BindPhase(s), "err">>)) =>
          /\ pc = "returned"
          /\ result = BindErr(s)
          /\ fut[Other(s)] # "err"
    /\ (pc = "handles" \/ Has(<<"handles", "ok">>)) =>
          /\ \A s \in Servers : fut[s] = "ok"
          /\ ~BindFailed

C7_Witness == result = "AuthBindErr" /\ fut["rpc"] = "pending"

\* C8: when one bind succeeded and the other failed, the launch has returned
\* the error of the failed bind and the listener of the successful bind is
\* still bound.
C8_BoundServerSurvives ==
    \A s \in Servers : (Has(<<BindPhase(s), "err">>) /\ Has(<<BindPhase(Other(s)), "ok">>)) =>
        /\ pc = "returned"
        /\ result = BindErr(s)
        /\ BoundAt(Other(s), joined[Other(s)])

C8_Witness ==
    /\ result = "RpcBindErr"
    /\ Before(<<"bind_auth", "ok">>, <<"bind_rpc", "err">>)
    /\ \E l \in listeners : l.srv = "auth"

C10_SnapshotIsolation ==
    [][\A l \in listeners : Served(l)' = Served(l)]_vars

C10_Witness ==
    /\ calls["on_rpc_started"] = 1
    /\ \E l \in listeners : l.srv = "rpc" /\ Served(l) # heap.modules

\* number of times an event is in the history
Occ(e) == Cardinality({i \in DOMAIN trace : trace[i] = e})

Hooks == {"ext", "extend_rpc_modules", "on_rpc_started"}

\* what the launch itself seeds
LaunchSigners == IF dev THEN DEV_SIGNERS ELSE 0

\* C11: the launch injects the dev signers at most once, only in dev mode,
\* after the Eth API was built and the modules assembled and before the
\* caller override and every hook; the override finds exactly the injected
\* accounts and the pre-launch hook finds at least those.
C11_DevInjection ==
    /\ Occ(<<"dev_accounts", "ok">>) <= 1
    /\ ~dev => Occ(<<"dev_accounts", "ok">>) = 0
    /\ Has(<<"dev_accounts", "ok">>) =>
          /\ Before(<<"eth_api", "ok">>, <<"dev_accounts", "ok">>)
          /\ Before(<<"assemble", "ok">>, <<"dev_accounts", "ok">>)
    /\ \A h \in Hooks : (dev /\ Has(<<h, "start">>)) =>
          Before(<<"dev_accounts", "ok">>, <<h, "start">>)
    /\ calls["ext"] > 0 => obs["ext_seen"].registry.signers = LaunchSigners
    /\ calls["extend_rpc_modules"] > 0 =>
          obs["extend_seen"].registry.signers >= LaunchSigners

C11_Witness ==
    /\ dev
    /\ calls["extend_rpc_modules"] = 1
    /\ obs["extend_seen"].registry.signers = DEV_SIGNERS

C13_OneRegistry ==
    /\ calls["extend_rpc_modules"] > 0 =>
          obs["extend_seen"].registry = obs["ext_left"].registry
    /\ calls["on_rpc_started"] > 0 =>
          obs["started_seen"].registry = obs["extend_left"].registry
    /\ rpc_handle.some =>
          rpc_handle.rpc_registry = obs["started_left"].registry

C13_Witness ==
    /\ result = "ok"
    /\ obs["ext_left"].registry # obs["ext_seen"].registry
    /\ obs["started_left"].registry # obs["started_seen"].registry

\* C14 as stated: whatever the outcome of a launch, each registered hook has
\* been invoked exactly once when it returns.
C14_HooksAlwaysOnce ==
    pc = "returned" =>
        /\ calls["extend_rpc_modules"] = 1
        /\ calls["on_rpc_started"] = 1

\* C14, amended: each registered hook is invoked at most once; the pre-launch
\* hook exactly once in the launches in which the caller override succeeded,
\* the post-launch hook exactly once in the launches in which both binds
\* succeeded, and so both exactly once in every launch that returns a handle.
C14_HooksAtMostOnce ==
    /\ calls["extend_rpc_modules"] <= 1
    /\ calls["on_rpc_started"] <= 1
    /\ pc = "returned" =>
          /\ calls["extend_rpc_modules"] = 1 <=> Has(<<"ext", "ok">>)
          /\ calls["on_rpc_started"] = 1 <=>
                (Has(<<"bind_rpc", "ok">>) /\ Has(<<"bind_auth", "ok">>))
    /\ result = "ok" =>
          /\ calls["extend_rpc_modules"] = 1
          /\ calls["on_rpc_started"] = 1

C14_Witness ==
    /\ result = "AuthBindErr"
    /\ calls["extend_rpc_modules"] = 1
    /\ calls["on_rpc_started"] = 0

\* C15: no builder, hook or bind is invoked twice, no phase event occurs
\* twice, nothing follows a failure but the return of the error, and a
\* successful launch has built exactly one Engine API and one Eth API.
C15_NoRetry ==
    /\ \A w \in DOMAIN calls \ {"hook_dev_accounts"} : calls[w] <= 1
    /\ \A i, j \in DOMAIN trace : i < j => trace[i] # trace[j]
    /\ \A i, j \in DOMAIN trace :
          (i < j /\ trace[i][2] = "err") => trace[j] = <<"return", "err">>
    /\ Occ(<<"engine_api", "ok">>) <= 1
    /\ Occ(<<"eth_api", "ok">>) <= 1
    /\ result = "ok" =>
          /\ Occ(<<"eth_api", "ok">>) = 1
          /\ calls["build_eth_api"] = 1
          /\ calls["build_engine_api"] = 1

C15_Witness ==
    /\ result = "ok"
    /\ \A w \in DOMAIN calls \ {"hook_dev_accounts"} : calls[w] = 1

\* the phases of which a failure is returned by the launch
AbortPhases == {"engine_api", "eth_api", "assemble", "ext", "extend_rpc_modules",
                "bind_rpc", "bind_auth", "on_rpc_started"}

ErrOf(ph) ==
    CASE ph = "engine_api" -> "EngineApiErr"
      [] ph = "eth_api" -> "EthApiErr"
      [] ph = "assemble" -> "AuthConfigErr"
      [] ph = "ext" -> "ExtErr"
      [] ph = "extend_rpc_modules" -> "ExtendRpcModulesErr"
      [] ph = "bind_rpc" -> "RpcBindErr"
      [] ph = "bind_auth" -> "AuthBindErr"
      [] ph = "on_rpc_started" -> "OnRpcStartedErr"

\* C16: a launch that has returned either returned an RpcHandle and no phase
\* failed, or returned the error of the one phase that failed and no
\* RpcHandle; the failed phase is never the cache or feed-task spawn, the dev
\* injection or the handle assembly.  A launch that has not returned has no
\* result.
C16_TerminalStates ==
    /\ pc # "returned" => (result = "none" /\ ~rpc_handle.some)
    /\ pc = "returned" =>
          \/ /\ result = "ok"
             /\ rpc_handle.some
             /\ \A i \in DOMAIN trace : trace[i][2] # "err"
             /\ trace[Len(trace)] = <<"return", "ok">>
          \/ \E ph \in AbortPhases :
                /\ result = ErrOf(ph)
                /\ ~rpc_handle.some
                /\ {trace[i] : i \in {k \in DOMAIN trace : trace[k][2] = "err"}}
                      = {<<ph, "err">>, <<"return", "err">>}
                /\ trace[Len(trace)] = <<"return", "err">>
                /\ trace[Len(trace) - 1] = <<ph, "err">>

C16_Witness == result = "AuthConfigErr"

\* the updates the subscription of the feed task is to deliver
Delivered == [i \in 1..(stream.published - feed.sub_at) |-> feed.sub_at + i]

Completed(ph) == Has(<<ph, "ok">>) \/ Has(<<ph, "err">>)

\* C17: once spawned, the feed task stops running only because the
\* chain-update stream ended, in a step that is not a step of the launch: as
\* long as the stream is open it runs, whatever the launch returned.
C17_FeedTaskOutlivesLaunch ==
    /\ []((Has(<<"feed_spawn", "ok">>) /\ stream.state = "open") => feed_task = "running")
    /\ [][(feed_task = "running" /\ feed_task' # "running") =>
             (stream.state \in {"closed", "error"} /\ pc' = pc /\ result' = result)]_vars

C17_Witness ==
    /\ result = "OnRpcStartedErr"
    /\ feed_task = "running"
    /\ feed.fed # <<>>

\* C18: the subscription exists when the Eth API builder is called; what the
\* task has fed, followed by what waits in the stream, is exactly the
\* sequence of updates published since the subscription, in order and once;
\* every such update is eventually fed unless the stream ends in error, and
\* when the stream is closed the task eventually ends, having fed them all.
C18_FeedsEveryUpdate ==
    /\ [](Has(<<"eth_api", "start">>) =>
             (feed.subscribed /\ Before(<<"feed_spawn", "ok">>, <<"eth_api", "start">>)))
    /\ [](feed.subscribed => feed.fed \o feed.buf = Delivered)
    /\ [](~feed.subscribed => feed.fed = <<>>)
    /\ [](feed_task = "ended" => (stream.state = "closed" /\ feed.fed = Delivered))
    /\ \A u \in 1..MaxUpdates :
          (feed.subscribed /\ feed.sub_at < u /\ u <= stream.published)
             ~> ((\E i \in DOMAIN feed.fed : feed.fed[i] = u) \/ stream.state = "error")
    /\ (stream.state = "closed" /\ feed_task = "running") ~> (feed_task = "ended")

C18_Witness ==
    /\ feed_task = "ended"
    /\ feed.sub_at = 1
    /\ feed.fed = <<2>>

\* C19: when the stream ends in error the feed task dies and its death is
\* escalated, in a step that changes neither the position nor the result nor
\* the returned handle of the launch.
C19_CriticalFault ==
    /\ [](feed_task = "faulted" => feed.escalated)
    /\ [][(feed_task # "faulted" /\ feed_task' = "faulted") =>
             /\ stream.state = "error"
             /\ feed.escalated'
             /\ pc' = pc
             /\ result' = result
             /\ rpc_handle' = rpc_handle]_vars

C19_Witness ==
    /\ result = "ok"
    /\ rpc_handle.some
    /\ feed_task = "faulted"
    /\ feed.fault_at = "returned"
    /\ feed.escalated

\* C20 as stated: a launch that has returned has seen every bind it started
\* complete.
C20_ReturnsOnlyWhenBindsCompleted ==
    pc = "returned" =>
        \A s \in Servers : Has(<<BindPhase(s), "start">>) => Completed(BindPhase(s))

\* C20, amended: the launch leaves an await only when an awaited operation
\* completes; a launch that has returned has seen every builder it called
\* complete, has seen both binds succeed if it returned a handle, and has
\* left a started bind uncompleted only by returning the error of the other.
C20_NoTimeout ==
    /\ [][(pc = "await_engine_api" /\ pc' # pc) => Completed("engine_api")']_vars
    /\ [][(pc = "await_eth_api" /\ pc' # pc) => Completed("eth_api")']_vars
    /\ [][(pc = "try_join" /\ pc' # pc) =>
             \/ (Has(<<"bind_rpc", "ok">>) /\ Has(<<"bind_auth", "ok">>))'
             \/ BindFailed']_vars
    /\ [](pc = "returned" =>
             /\ Has(<<"engine_api", "start">>) => Completed("engine_api")
             /\ Has(<<"eth_api", "start">>) => Completed("eth_api")
             /\ result = "ok" => (Has(<<"bind_rpc", "ok">>) /\ Has(<<"bind_auth", "ok">>))
             /\ \A s \in Servers :
                   (Has(<<BindPhase(s), "start">>) /\ ~Completed(BindPhase(s)))
                      => result = BindErr(Other(s)))

C20_Witness ==
    /\ result = "RpcBindErr"
    /\ Has(<<"bind_auth", "start">>)
    /\ ~Completed("bind_auth")

\* the hook registered last for a kind, the `()` hook if there is none
RECURSIVE LastOf(_, _)
LastOf(reg, kind) ==
    IF reg = <<>> THEN 0
    ELSE IF reg[Len(reg)][1] = kind THEN reg[Len(reg)][2]
    ELSE LastOf(SubSeq(reg, 1, Len(reg) - 1), kind)

LastRegistered(kind) == LastOf(hook_log.registered, kind)

\* what the assembler and the dev injection produce
Assembled ==
    [modules |-> AssembledModules, auth_module |-> AssembledModules,
     registry |-> [built |-> TRUE, signers |-> LaunchSigners]]

HookErrs == {"ExtErr", "ExtendRpcModulesErr", "OnRpcStartedErr"}

\* C21: the `|_, _, _| Ok(())` of launch_add_ons and a `()` hook leave what
\* they are given as they found it and do not fail; with launch_add_ons and
\* the default hooks the modules, the auth module and the registry stay as
\* assembly and dev injection produced them, up to the returned handle, and
\* the launch returns no hook error.
C21_DefaultHooksNoOp ==
    /\ entry = "launch_add_ons" =>
          (obs["ext_left"] = obs["ext_seen"] /\ ~Has(<<"ext", "err">>))
    /\ hooks.extend_rpc_modules = 0 =>
          (obs["extend_left"] = obs["extend_seen"] /\ ~Has(<<"extend_rpc_modules", "err">>))
    /\ hooks.on_rpc_started = 0 =>
          (obs["started_left"] = obs["started_seen"] /\ ~Has(<<"on_rpc_started", "err">>))
    /\ (entry = "launch_add_ons" /\ hooks = RpcHooks_default) =>
          /\ result \notin HookErrs
          /\ Has(<<"ext", "start">>) => View(heap, RpcContextRefs) = Assembled
          /\ rpc_handle.some => rpc_handle.rpc_registry = Assembled.registry
          /\ \A l \in listeners : Served(l) = AssembledModules

C21_Witness ==
    /\ entry = "launch_add_ons"
    /\ hooks = RpcHooks_default
    /\ hook_log.registered = <<>>
    /\ dev
    /\ result = "ok"
    /\ calls["ext"] = 1
    /\ calls["extend_rpc_modules"] = 1
    /\ calls["on_rpc_started"] = 1

\* C22: what a launched server serves is the state of the transport modules
\* (for the auth server: of the auth module) at the moment the registered
\* pre-launch hook returned, and that hook had started from what the caller
\* override left.
C22_SnapshotsAfterPreLaunch ==
    /\ \A l \in listeners :
          /\ l.srv = "rpc" => Served(l) = obs["extend_left"].modules
          /\ l.srv = "auth" => Served(l) = obs["extend_left"].auth_module
    /\ listeners # {} =>
          /\ obs["extend_seen"] = obs["ext_left"]
          /\ Before(<<"extend_rpc_modules", "ok">>, <<"bind_rpc", "start">>)

C22_Witness ==
    \E l \in listeners :
        /\ l.srv = "rpc"
        /\ obs["ext_left"].modules # obs["ext_seen"].modules
        /\ obs["extend_left"].modules # obs["extend_seen"].modules
        /\ Served(l) = obs["extend_left"].modules
        /\ Served(l) # AssembledModules

EHas(e) == \E i \in DOMAIN engine.log : engine.log[i] = e

EBefore(e1, e2) ==
    \E i, j \in DOMAIN engine.log : i < j /\ engine.log[i] = e1 /\ engine.log[j] = e2

\* C23: build_engine_api of the basic builder calls the validator builder at
\* most once, and exactly once when it has returned; a handler is constructed
\* only after the validator was built; when the validator builder failed no
\* handler is constructed and the launch returns the Engine API error
\* without creating the cache or calling the Eth API builder.
C23_ValidatorBeforeHandler ==
    /\ engine.validator_calls <= 1
    /\ (Has(<<"engine_api", "ok">>) \/ Has(<<"engine_api", "err">>)) =>
          engine.validator_calls = 1
    /\ engine.handler =>
          (engine.validator /\ EBefore(<<"validator", "ok">>, <<"handler", "ok">>))
    /\ Has(<<"engine_api", "ok">>) => engine.handler
    /\ EHas(<<"validator", "err">>) =>
          /\ ~engine.handler
          /\ ~EHas(<<"handler", "ok">>)
          /\ pc \in {"await_engine_api", "returned"}
          /\ pc = "returned" => result = "EngineApiErr"
          /\ cache = "none"
          /\ calls["build_eth_api"] = 0

C23_Witness ==
    /\ result = "EngineApiErr"
    /\ EHas(<<"validator", "err">>)
    /\ engine.validator_calls = 1
    /\ ~engine.handler

KindOf(ev) == ev[1]

\* C24: each field of RpcHooks holds the hook registered last for it; the
\* launch invokes, for each extension point at most once, the hook registered
\* last and no other; a registration changes only the field of its kind.
C24_LastRegisteredWins ==
    /\ [](\A kind \in DOMAIN hooks : hooks[kind] = LastRegistered(kind))
    /\ [](\A i \in DOMAIN hook_log.invoked :
             /\ hook_log.invoked[i][2] = LastRegistered(KindOf(hook_log.invoked[i]))
             /\ \A j \in DOMAIN hook_log.invoked :
                   KindOf(hook_log.invoked[j]) = KindOf(hook_log.invoked[i]) => j = i)
    /\ [][\A kind \in DOMAIN hooks :
             hooks'[kind] # hooks[kind] =>
                /\ Len(hook_log.registered') = Len(hook_log.registered) + 1
                /\ KindOf(hook_log.registered'[Len(hook_log.registered')]) = kind]_vars

C24_Witness ==
    /\ \E i, j \in DOMAIN hook_log.registered :
          /\ i < j
          /\ hook_log.registered[i][1] = "on_rpc_started"
          /\ hook_log.registered[j][1] = "on_rpc_started"
          /\ hook_log.registered[i][2] # hook_log.registered[j][2]
          /\ \E k \in DOMAIN hook_log.invoked :
                hook_log.invoked[k] = hook_log.registered[j]
    /\ hooks.extend_rpc_modules = 0
    /\ result = "ok"

\* C25: a call that has returned for a raw transaction that decodes and
\* recovers has submitted it once to the pool with Local origin, after the
\* forward if a sequencer client is set (and without a forward if none is),
\* and has returned the result of the pool whatever the forward returned; a
\* call for bytes that do not decode or recover has forwarded and submitted
\* nothing and returned the recovery error.
C25_ForwardFailureIgnored ==
    LET c == opapi.call IN
    /\ opapi.pc \in {"returned", "idle"} /\ opapi.ncalls > 0 =>
          IF recover_raw_transaction(c.tx).ok
            THEN /\ c.log = (IF opapi.sequencer_client THEN <<"recovered", "forward">>
                                                       ELSE <<"recovered">>)
                              \o <<"pool", "return">>
                 /\ opapi.pool[Len(opapi.pool)] = <<"Local", c.tx[2]>>
                 /\ opapi.sequencer_client => opapi.forwarded[Len(opapi.forwarded)] = c.tx
                 /\ c.pool_out \in {"ok", "err"}
                 /\ c.ret = (IF c.pool_out = "ok" THEN <<"ok", c.tx[2]>> ELSE <<"err", "PoolErr">>)
            ELSE /\ c.log = <<"return">>
                 /\ c.ret = <<"err", recover_raw_transaction(c.tx).err>>
    /\ ~opapi.sequencer_client => opapi.forwarded = <<>>
    /\ \A i \in DOMAIN opapi.forwarded : opapi.forwarded[i][1] = "signed"
    /\ \A i \in DOMAIN opapi.pool : opapi.pool[i][1] = "Local"
    /\ Len(opapi.pool) <= opapi.ncalls
    /\ Len(opapi.forwarded) <= opapi.ncalls

C25_Witness ==
    /\ opapi.pc = "returned"
    /\ opapi.sequencer_client
    /\ opapi.call.fwd_out = "err"
    /\ opapi.call.ret = <<"ok", opapi.call.tx[2]>>
    /\ opapi.ncalls = MaxCalls
    /\ Len(opapi.pool) = 1

\* whether a list contains the eth capability of a version
ContainsEth(l, ver) == \E i \in DOMAIN l : l[i].name = "eth" /\ l[i].version = ver

\* the flags and the list of a Capabilities value are those of the list l
FlagsOf(v, l) ==
    /\ supports_eth_v66(v) <=> ContainsEth(l, 66)
    /\ supports_eth_v67(v) <=> ContainsEth(l, 67)
    /\ supports_eth_v68(v) <=> ContainsEth(l, 68)
    /\ supports_eth(v) <=> (ContainsEth(l, 66) \/ ContainsEth(l, 67) \/ ContainsEth(l, 68))
    /\ capabilities(v) = l

\* C26: the value built from a list by From and the value decoded from the
\* encoding of that list have the v66 / v67 / v68 flag exactly when the list
\* contains eth/66, eth/67, eth/68, support eth exactly when one of the
\* three holds, return the list unchanged, and are equal.
C26_FlagsMatchList ==
    /\ caps.pc \in {"built", "encoded", "decoded", "classified"} =>
          FlagsOf(caps.from_vec, caps.list)
    /\ caps.pc \in {"decoded", "classified"} =>
          /\ caps.decoded.ok
          /\ FlagsOf(caps.decoded.value, caps.list)
          /\ caps.decoded.value = caps.from_vec

C26_Witness ==
    /\ caps.pc = "decoded"
    /\ Len(caps.list) = MaxCaps
    /\ caps.list[1] = [name |-> "snap", version |-> 66]
    /\ caps.list[2] = [name |-> "eth", version |-> 68]
    /\ supports_eth(caps.decoded.value)
    /\ ~supports_eth_v66(caps.decoded.value)

\* C27 as stated: is_eth is true of every capability named eth whose
\* version is a valid eth protocol version, and false of every capability
\* with another name.
C27_IsEthAnyVersion ==
    caps.pc = "classified" =>
        \A i \in DOMAIN caps.list :
            /\ (caps.list[i].name = "eth" /\ caps.list[i].version \in ValidEthVersions)
                  => caps.is_eth[i]
            /\ caps.list[i].name # "eth" => ~caps.is_eth[i]

\* the updates sent for an opcode name, and the sum of their run times
SentFor(name) ==
    {i \in DOMAIN prof_log.sent :
        OpCode_new(prof_log.sent[i].op).some /\ OpCode_new(prof_log.sent[i].op).as_str = name}

RECURSIVE SumTimes(_)
SumTimes(is) ==
    IF is = {} THEN 0
    ELSE LET i == CHOOSE x \in is : TRUE
         IN prof_log.sent[i].run_time + SumTimes(is \ {i})

Counted(id) == id \in prof_log.counted

OpNames == {"STOP", "ADD"}

\* C28 as stated: no message is received twice; a message that left the
\* channel has been added to the maps or is in the hands of the worker that
\* received it; and when every sent message has been added, the count of
\* each opcode is the number of updates sent for it and its time their sum.
C28_NoLostUpdate ==
    /\ \A i, j \in DOMAIN prof_log.received :
          prof_log.received[i][1] = prof_log.received[j][1] => i = j
    /\ \A i \in DOMAIN prof_log.received :
          LET id == prof_log.received[i][1]
              w == prof_log.received[i][2]
          IN Counted(id) \/ (threads[w].msg.id = id /\ threads[w].pc # "panicked")
    /\ (\A i \in DOMAIN prof_log.sent : Counted(prof_log.sent[i].id)) =>
          \A name \in OpNames :
             IF SentFor(name) = {}
               THEN name \notin DOMAIN OP_COUNT_MAP.map /\ name \notin DOMAIN OP_TIME_MAP.map
               ELSE /\ OP_COUNT_MAP.map[name] = Cardinality(SentFor(name))
                    /\ OP_TIME_MAP.map[name] = SumTimes(SentFor(name))

\* C29: whenever no thread holds the guard of OP_COUNT_MAP the two maps have
\* the same keys; every key print_records looks up while it holds that guard
\* is in OP_TIME_MAP, and no print_records call panics.
C29_LookupNeverFails ==
    /\ OP_COUNT_MAP.lock = 0 => DOMAIN OP_COUNT_MAP.map = DOMAIN OP_TIME_MAP.map
    /\ \A p \in Printers :
          /\ threads[p].pc \in {"lock_time", "get"} =>
                (OP_COUNT_MAP.lock = p /\ threads[p].key \in DOMAIN OP_TIME_MAP.map)
          /\ threads[p].pc # "panicked"
    /\ ~OP_COUNT_MAP.poisoned
    /\ ~OP_TIME_MAP.poisoned

C29_Witness ==
    \E p \in Printers, w \in Workers :
        /\ threads[p].pc = "get"
        /\ threads[p].key = "STOP"
        /\ threads[w].pc = "lock_first"
        /\ threads[w].op_code = "ADD"
        /\ "ADD" \notin DOMAIN OP_COUNT_MAP.map

Locks == {"receiver", "OP_COUNT_MAP", "OP_TIME_MAP"}

\* the thread that holds a lock, 0 if none
Owner(l) ==
    CASE l = "receiver" -> CHANNEL.receiver
      [] l = "OP_COUNT_MAP" -> OP_COUNT_MAP.lock
      [] OTHER -> OP_TIME_MAP.lock

\* the lock a thread is about to take
Wants(t) ==
    CASE threads[t].pc = "lock_receiver" -> {"receiver"}
      [] threads[t].pc = "lock_first" -> {WorkerLockOrder[1]}
      [] threads[t].pc = "lock_second" -> {WorkerLockOrder[2]}
      [] threads[t].pc = "lock_count" -> {"OP_COUNT_MAP"}
      [] threads[t].pc = "lock_time" -> {"OP_TIME_MAP"}
      [] OTHER -> {}

Held(t) == {l \in Locks : Owner(l) = t}

\* a set of threads each of which waits for a lock held by one of them
WaitCycle(S) ==
    /\ S # {}
    /\ \A t \in S : \E l \in Wants(t) : Owner(l) \in S

\* C30: no set of threads wait on each other's locks; a thread that holds
\* OP_TIME_MAP never waits for a lock, a thread that waits for OP_COUNT_MAP
\* or for the receiver holds no lock, the receiver lock is held only while
\* receiving, and no thread that ended holds a lock.
C30_NoLockDeadlock ==
    /\ \A S \in SUBSET DOMAIN threads : ~WaitCycle(S)
    /\ \A t \in DOMAIN threads :
          /\ "OP_TIME_MAP" \in Held(t) => Wants(t) = {}
          /\ (Wants(t) \cap {"OP_COUNT_MAP", "receiver"}) # {} => Held(t) = {}
          /\ "receiver" \in Held(t) => (threads[t].pc = "recv" /\ Held(t) = {"receiver"})
          /\ threads[t].pc \in {"off", "done", "panicked"} => Held(t) = {}

C30_Witness ==
    \E w, v \in Workers, p \in Printers :
        /\ threads[p].pc = "lock_time"
        /\ Owner("OP_COUNT_MAP") = p
        /\ Owner("OP_TIME_MAP") = 0
        /\ threads[w].pc = "lock_first"
        /\ threads[v].pc = "recv"
        /\ Owner("receiver") = v

\* ---------------------------------------------------------------------
\* C31
\* ---------------------------------------------------------------------

Started == \E w \in Workers : ~At(w, "off")

\* the worker left its loop: the only exits are the break on a closed
\* channel and a panic; the static CHANNEL keeps its sender, so the channel
\* is never closed
Stopped(w) == At(w, "panicked")

\* C31 as stated: once start_channel has been called, every update that was
\* sent, whatever its op byte, is eventually added to OP_COUNT_MAP and
\* OP_TIME_MAP under fair scheduling, and no worker stops receiving while
\* the sending side of the channel is open (it always is).
C31_EveryUpdateEventuallyAdded ==
    /\ \A i \in 1..MaxSends :
          (Len(prof_log.sent) >= i /\ Started) ~> (i \in prof_log.counted)
    /\ [](\A w \in Workers : ~Stopped(w))

====
